---- MODULE Spec2Model ----
(***************************************************************************)
(* TruMedia chart scraper (scripts/utils/trumedia_scraper.py): the         *)
(* shadow-DOM chart locator, the chart capture engine and the remote       *)
(* browser connector, as state machines.                                   *)
(***************************************************************************)
EXTENDS Integers, Sequences, FiniteSets, TLC

\* ------------------------------------------------------------------ bounds
\* Largest number of elements below the application root on a modelled page.
MaxNodes == 3

\* ------------------------------------------------------------ page model
HEAT_MAP == "tmn-heat-map-baseball"
PITCH_BREAK == "tmn-pitch-break-chart-baseball"

CHART_TYPES ==
  << "tmn-pie-chart-baseball", "tmn-pitch-chart-baseball",
     "tmn-pitch-break-chart-baseball", "tmn-release-point-chart-baseball",
     "tmn-radial-histogram-chart-baseball", "tmn-extension-point-chart-baseball",
     "tmn-heat-map-baseball" >>

Range(s) == {s[i] : i \in 1..Len(s)}

\* Tags of the elements of a modelled page: two recognized chart types and
\* one element that is no chart.
PageTags == {HEAT_MAP, PITCH_BREAK, "div"}

\* How an element hangs below its parent: as a light-DOM child, or inside the
\* parent's shadow root, which is open (el.shadowRoot is the root) or closed
\* (el.shadowRoot is null).
Links == {"light", "open", "closed"}

\* The elements a page may get as element number Len(t)+1. Element 0 is the
\* application root tmn-ferp-app; its children are the children of its shadow
\* root. An element's parent has a smaller number and siblings are in document
\* order by number. A host has one shadow root: its shadow children agree on
\* open or closed.
Attachments(t) ==
  { r \in [parent : 0..Len(t), link : Links, tag : PageTags] :
      /\ r.parent = 0 => r.link = "open"
      /\ r.link # "light" =>
           \A i \in 1..Len(t) :
             (t[i].parent = r.parent /\ t[i].link # "light") => t[i].link = r.link }

RECURSIVE Trees(_)
Trees(n) ==
  IF n = 0 THEN {<< >>}
  ELSE LET smaller == Trees(n - 1)
       IN smaller \cup
          UNION { {Append(t, r) : r \in Attachments(t)} : t \in {s \in smaller : Len(s) = n - 1} }

\* The state of the application root on the loaded page.
AppStates == {"absent", "noshadow", "closed", "open"}

Pages ==
  { [app |-> a, nodes |-> t] : a \in {"open"}, t \in Trees(MaxNodes) }
  \cup { [app |-> a, nodes |-> << >>] : a \in {"absent", "noshadow"} }
  \cup { [app |-> "closed", nodes |-> t] : t \in Trees(1) }

Ids(page) == [i \in 1..Len(page.nodes) |-> i]

LightChildren(page, e) ==
  SelectSeq(Ids(page), LAMBDA i : page.nodes[i].parent = e /\ page.nodes[i].link = "light")

ShadowChildren(page, e) ==
  SelectSeq(Ids(page), LAMBDA i : page.nodes[i].parent = e /\ page.nodes[i].link # "light")

\* el.shadowRoot is truthy: the element hosts an open shadow root. (An empty
\* open shadow root holds nothing to visit and is not distinguished.)
HasShadowRoot(page, e) ==
  IF e = 0 THEN page.app = "open"
  ELSE \E i \in 1..Len(page.nodes) : page.nodes[i].parent = e /\ page.nodes[i].link = "open"

\* Document (pre)order of the light trees rooted at the elements of els.
RECURSIVE Preorder(_, _)
Preorder(page, els) ==
  IF els = << >> THEN << >>
  ELSE << Head(els) >> \o Preorder(page, LightChildren(page, Head(els)))
         \o Preorder(page, Tail(els))

\* root.querySelectorAll('*') with root = host.shadowRoot
QuerySelectorAll(page, host) == Preorder(page, ShadowChildren(page, host))

\* ------------------------------------------------------ chart locator
\* A walk that visits an element's shadow root after the element's following
\* elements.
RECURSIVE findChartsOver_shadowLast(_, _)
findChartsOver_shadowLast(page, els) ==
  IF els = << >> THEN << >>
  ELSE LET el == Head(els)
           tag == page.nodes[el].tag
       IN (IF tag \in Range(CHART_TYPES) THEN << [tag |-> tag, element |-> el] >> ELSE << >>)
          \o findChartsOver_shadowLast(page, Tail(els))
          \o (IF HasShadowRoot(page, el)
              THEN findChartsOver_shadowLast(page, QuerySelectorAll(page, el))
              ELSE << >>)

\* findCharts(root, chartTypes) over the elements els = root.querySelectorAll('*'):
\* a recognized element is pushed, then the charts of its shadow root follow.
RECURSIVE findChartsOver(_, _)
findChartsOver(page, els) ==
  IF els = << >> THEN << >>
  ELSE LET el == Head(els)
           tag == page.nodes[el].tag
       IN (IF tag \in Range(CHART_TYPES) THEN << [tag |-> tag, element |-> el] >> ELSE << >>)
          \o (IF HasShadowRoot(page, el)
              THEN findChartsOver(page, QuerySelectorAll(page, el))
              ELSE << >>)
          \o findChartsOver(page, Tail(els))

findCharts(page, host) == findChartsOver(page, QuerySelectorAll(page, host))

\* The locator without the check of app.shadowRoot.
LocatedCharts_noShadowCheck(page) ==
  IF page.app = "absent" THEN << >>
  ELSE findChartsOver(page, Preorder(page, ShadowChildren(page, 0)))

\* The located elements with their tags, before the final map to {tag}.
LocatedCharts(page) ==
  IF page.app = "absent" \/ ~HasShadowRoot(page, 0) THEN << >>
  ELSE findCharts(page, 0)

find_charts_in_shadow_dom(page) ==
  LET found == LocatedCharts(page)
  IN [i \in 1..Len(found) |-> [tag |-> found[i].tag]]

\* ------------------------------------------------------ chart capture
\* findChart with a counter each recursive call copies instead of shares: the
\* charts counted inside a shadow root are forgotten on the way back.
RECURSIVE findChartOver_copiedCounter(_, _, _, _, _)
findChartOver_copiedCounter(page, els, targetTag, targetIndex, idx) ==
  IF els = << >> THEN [found |-> FALSE, el |-> 0, idx |-> idx]
  ELSE LET el == Head(els)
           isTarget == page.nodes[el].tag = targetTag
       IN IF isTarget /\ idx = targetIndex
          THEN [found |-> TRUE, el |-> el, idx |-> idx]
          ELSE LET idx1 == IF isTarget THEN idx + 1 ELSE idx
                   sub == IF HasShadowRoot(page, el)
                          THEN findChartOver_copiedCounter(page, QuerySelectorAll(page, el),
                                                           targetTag, targetIndex, idx1)
                          ELSE [found |-> FALSE, el |-> 0, idx |-> idx1]
               IN IF sub.found THEN sub
                  ELSE findChartOver_copiedCounter(page, Tail(els), targetTag,
                                                   targetIndex, idx1)

\* findChart(root, targetTag, targetIndex, preferImage, state) up to the
\* selection of the element: the element matched (if any) and state.idx after
\* the walk. The counter state.idx is shared by the recursive calls.
RECURSIVE findChartOver(_, _, _, _, _)
findChartOver(page, els, targetTag, targetIndex, idx) ==
  IF els = << >> THEN [found |-> FALSE, el |-> 0, idx |-> idx]
  ELSE LET el == Head(els)
           isTarget == page.nodes[el].tag = targetTag
       IN IF isTarget /\ idx = targetIndex
          THEN [found |-> TRUE, el |-> el, idx |-> idx]
          ELSE LET idx1 == IF isTarget THEN idx + 1 ELSE idx
                   sub == IF HasShadowRoot(page, el)
                          THEN findChartOver(page, QuerySelectorAll(page, el),
                                             targetTag, targetIndex, idx1)
                          ELSE [found |-> FALSE, el |-> 0, idx |-> idx1]
               IN IF sub.found THEN sub
                  ELSE findChartOver(page, Tail(els), targetTag, targetIndex, sub.idx)

findChart(page, targetTag, targetIndex) ==
  findChartOver(page, QuerySelectorAll(page, 0), targetTag, targetIndex, 0)

\* What the browser answers about the matched chart element:
\*   svg     findSvg(el) finds an svg element
\*   img     deepQuery(el,'img'): none; src is a data:image/ URL with a base64
\*           payload ("data") or with a payload base64 cannot decode
\*           ("data_bad"); a loaded image that can be drawn and exported
\*           ("draw"); a loaded cross-origin image, which taints the canvas
\*           ("tainted"); an image of width or height 0 ("empty")
\*   srctype the media type a data: URL of the img declares ("none" for an
\*           img whose source is no data URL)
\*   canvas  deepQuery(el,'canvas'): none, exportable, or toDataURL throws
\*   image   deepQuery(el,'image'): none, no href, the in-page fetch of the
\*           href succeeds ("xhr_ok") or fails ("xhr_fail")
\*   mime    the Content-Type header of the in-page fetch ("none": no header)
\*   frame   Page.getFrameTree carries a frame id ("id") or not ("none")
\*   resource  Page.getResourceContent: no content ("none") or content whose
\*           leading bytes are that signature ("png", "jpg", "gif87a",
\*           "gif89a", "riff"; "raw": none of them)
\*   urlext  the extension the href ends with ("none": not an image extension)
NoImage ==
  [img |-> "none", srctype |-> "none", canvas |-> "none", image |-> "none",
   mime |-> "none", frame |-> "id", resource |-> "none", urlext |-> "none"]

ImageContents ==
  { [NoImage EXCEPT !.img = i, !.canvas = c,
                     !.srctype = IF i \in {"data", "data_bad"} THEN t ELSE "none"] :
      i \in {"none", "data", "data_bad", "draw", "tainted", "empty"},
      c \in {"none", "ok", "throws"},
      t \in {"image/png", "image/jpeg"} }
  \cup { [NoImage EXCEPT !.img = i, !.image = "nohref"] : i \in {"none", "empty"} }
  \cup { [NoImage EXCEPT !.image = "xhr_ok", !.mime = m] :
           m \in {"none", "image/png", "image/jpeg", "image/webp", "text/html"} }
  \cup { [NoImage EXCEPT !.image = "xhr_fail", !.frame = f, !.resource = r, !.urlext = u] :
           f \in {"id", "none"},
           r \in {"none", "png", "jpg", "gif87a", "gif89a", "riff", "raw"},
           u \in {"none", "png", "jpg", "jpeg", "gif", "webp"} }

WithSvg(c, b) ==
  [svg |-> b, img |-> c.img, srctype |-> c.srctype, canvas |-> c.canvas, image |-> c.image, mime |-> c.mime,
   frame |-> c.frame, resource |-> c.resource, urlext |-> c.urlext]

Contents == { WithSvg(c, b) : c \in ImageContents, b \in BOOLEAN }

NoResult == [kind |-> "null", data |-> "none", mime |-> "none"]

\* captureImage(node): the inline or href result, null, or an uncaught
\* exception of the script ("throw": toDataURL on a tainted canvas).
captureImage(c) ==
  IF c.img \in {"data", "data_bad"} THEN [kind |-> "inline", data |-> c.img, mime |-> "none"]
  ELSE IF c.img = "draw" THEN [kind |-> "inline", data |-> "png", mime |-> "none"]
  ELSE IF c.img = "tainted" THEN [kind |-> "throw", data |-> "none", mime |-> "none"]
  ELSE IF c.canvas = "ok" THEN [kind |-> "inline", data |-> "png", mime |-> "none"]
  ELSE IF c.image = "xhr_ok"
       THEN [kind |-> "inline", data |-> "xhr",
             mime |-> IF c.mime = "none" THEN "image/png" ELSE c.mime]
  ELSE IF c.image = "xhr_fail" THEN [kind |-> "href", data |-> "url", mime |-> "none"]
  ELSE NoResult

\* The branch of findChart taken at the matched element.
PriorityOrder(useImageFirst, svgResult, imageResult) ==
  IF useImageFirst
  THEN IF imageResult.kind # "null" THEN imageResult
       ELSE IF svgResult.kind # "null" THEN svgResult
       ELSE [kind |-> "missing", data |-> "none", mime |-> "none"]
  ELSE IF svgResult.kind # "null" THEN svgResult
       ELSE IF imageResult.kind # "null" THEN imageResult
       ELSE [kind |-> "missing", data |-> "none", mime |-> "none"]

ResolveChart(c, preferImage) ==
  LET svgResult == IF c.svg THEN [kind |-> "svg", data |-> "outerHTML", mime |-> "none"]
                   ELSE NoResult
      imageResult == captureImage(c)
  IN IF imageResult.kind = "throw" THEN imageResult
     ELSE PriorityOrder(preferImage = TRUE, svgResult, imageResult)

\* The value the capture script hands back to Python.
CaptureScript(page, tag, index, preferImage, c) ==
  IF page.app = "absent" \/ ~HasShadowRoot(page, 0)
  THEN [found |-> FALSE, el |-> 0,
        result |-> [kind |-> "missing", data |-> "none", mime |-> "none"]]
  ELSE LET hit == findChart(page, tag, index)
       IN IF hit.found
          THEN [found |-> TRUE, el |-> hit.el, result |-> ResolveChart(c, preferImage)]
          ELSE [found |-> FALSE, el |-> 0,
                result |-> [kind |-> "missing", data |-> "none", mime |-> "none"]]

prefer_image(flag, tag) == flag /\ tag = HEAT_MAP

_mime_to_ext(mime) ==
  IF mime = "none" THEN "png"
  ELSE IF mime = "image/png" THEN "png"
  ELSE IF mime \in {"image/jpeg", "image/jpg"} THEN "jpg"
  ELSE IF mime = "image/gif" THEN "gif"
  ELSE IF mime = "image/webp" THEN "webp"
  ELSE "png"

\* The signatures table of _detect_image: the format whose leading bytes the
\* payload starts with ("none": it starts with none of them).
SignatureExt(binary) ==
  IF binary = "png" THEN "png"
  ELSE IF binary = "jpg" THEN "jpg"
  ELSE IF binary \in {"gif87a", "gif89a"} THEN "gif"
  ELSE IF binary = "riff" THEN "webp"
  ELSE "none"

\* A detector that trusts the URL's extension before the payload.
_detect_image_urlFirst(binary, urlext) ==
  IF urlext \in {"png", "jpg", "gif", "webp"} THEN urlext
  ELSE IF urlext = "jpeg" THEN "jpg"
  ELSE IF SignatureExt(binary) # "none" THEN SignatureExt(binary)
  ELSE "png"

\* _detect_image(binary, url): the signature first, then the URL's extension.
_detect_image(binary, urlext) ==
  IF SignatureExt(binary) # "none" THEN SignatureExt(binary)
  ELSE IF urlext \in {"png", "jpg", "gif", "webp"} THEN urlext
  ELSE IF urlext = "jpeg" THEN "jpg"
  ELSE "png"

with_suffix(path, ext) == [stem |-> path.stem, ext |-> ext]

Stem(name, suffix) == [name |-> name, suffix |-> suffix]

NoFile == [stem |-> Stem("", << >>), ext |-> "none"]

\* The outcome of a call: ret is the returned path (NoFile for None), written
\* the file the call wrote (NoFile for none), raised whether it raised, and
\* frame_id the value of self._frame_id after it.
Outcome(ret, written, raised, frame_id) ==
  [ret |-> ret, written |-> written, raised |-> raised, frame_id |-> frame_id]

_write_data_url(path, res, frame_id) ==
  IF res.data = "data_bad" THEN Outcome(NoFile, NoFile, TRUE, frame_id)
  ELSE LET final == with_suffix(path, _mime_to_ext(res.mime))
       IN Outcome(final, final, FALSE, frame_id)

\* _get_frame_id(): Page.getFrameTree is issued; an answer without a frame id
\* ("none") raises and leaves self._frame_id alone, any other is stored.
_get_frame_id(c) ==
  [issued |-> TRUE, id |-> c.frame, raised |-> c.frame = "none", cache |-> c.frame]

\* A downloader that asks for the frame tree on every download.
FrameIdOrResolve_alwaysResolve(c, frame_id) == _get_frame_id(c)

\* frame_id = self._frame_id or self._get_frame_id()
FrameIdOrResolve(c, frame_id) ==
  IF frame_id # "none"
  THEN [issued |-> FALSE, id |-> frame_id, raised |-> FALSE, cache |-> frame_id]
  ELSE _get_frame_id(c)

\* The frame id the download uses: "none" when the frame tree carries no id,
\* and _get_frame_id raises.
ResolveFrameId(c, frame_id) == FrameIdOrResolve(c, frame_id).id

\* A downloader that leaves an empty file behind when no content came back.
_download_resource_emptyFile(path, c, frame_id) ==
  LET fid == ResolveFrameId(c, frame_id)
      final == with_suffix(path, _detect_image(c.resource, c.urlext))
  IN IF fid = "none" THEN Outcome(NoFile, NoFile, TRUE, frame_id)
     ELSE IF c.resource = "none" THEN Outcome(NoFile, final, FALSE, fid)
     ELSE Outcome(final, final, FALSE, fid)

_download_resource(path, c, frame_id) ==
  LET fid == ResolveFrameId(c, frame_id)
  IN IF fid = "none" THEN Outcome(NoFile, NoFile, TRUE, frame_id)
     ELSE IF c.resource = "none" THEN Outcome(NoFile, NoFile, FALSE, fid)
     ELSE LET final == with_suffix(path, _detect_image(c.resource, c.urlext))
          IN Outcome(final, final, FALSE, fid)

\* The Python half writing a placeholder file for a missing chart.
PersistResult_placeholder(res, path, c, frame_id) ==
  IF res.kind = "throw" THEN Outcome(NoFile, NoFile, TRUE, frame_id)
  ELSE IF res.kind = "svg" THEN Outcome(path, path, FALSE, frame_id)
  ELSE IF res.kind = "inline" THEN _write_data_url(path, res, frame_id)
  ELSE IF res.kind = "href" THEN _download_resource(path, c, frame_id)
  ELSE Outcome(path, path, FALSE, frame_id)

\* The Python half of capture_chart_by_tag, on the script's result.
PersistResult(res, path, c, frame_id) ==
  IF res.kind = "throw" THEN Outcome(NoFile, NoFile, TRUE, frame_id)
  ELSE IF res.kind = "svg" THEN Outcome(path, path, FALSE, frame_id)
  ELSE IF res.kind = "inline" THEN _write_data_url(path, res, frame_id)
  ELSE IF res.kind = "href" THEN _download_resource(path, c, frame_id)
  ELSE Outcome(NoFile, NoFile, FALSE, frame_id)

\* The content of a call that matched no element: the script read none.
Unread == WithSvg(NoImage, FALSE)

capture_chart_by_tag(page, flag, frame_id, tag, index, path, c) ==
  LET s == CaptureScript(page, tag, index, prefer_image(flag, tag), c)
      o == PersistResult(s.result, path, c, frame_id)
  IN [tag |-> tag, index |-> index, path |-> path,
      prefer |-> prefer_image(flag, tag),
      content |-> IF s.found THEN c ELSE Unread,
      found |-> s.found, el |-> s.el, kind |-> s.result.kind,
      ret |-> o.ret, written |-> o.written, raised |-> o.raised,
      frame_id |-> o.frame_id]

NoCapture ==
  [tag |-> "none", index |-> 0, path |-> NoFile, prefer |-> FALSE, content |-> Unread,
   found |-> FALSE, el |-> 0, kind |-> "none",
   ret |-> NoFile, written |-> NoFile, raised |-> FALSE, frame_id |-> "none"]

\* ------------------------------------------------ scrape_current_page
\* chart_name = tag.replace("tmn-", "").replace("-baseball", "")
chart_name(tag) ==
  CASE tag = "tmn-pie-chart-baseball" -> "pie-chart"
    [] tag = "tmn-pitch-chart-baseball" -> "pitch-chart"
    [] tag = "tmn-pitch-break-chart-baseball" -> "pitch-break-chart"
    [] tag = "tmn-release-point-chart-baseball" -> "release-point-chart"
    [] tag = "tmn-radial-histogram-chart-baseball" -> "radial-histogram-chart"
    [] tag = "tmn-extension-point-chart-baseball" -> "extension-point-chart"
    [] tag = "tmn-heat-map-baseball" -> "heat-map"
    [] OTHER -> tag

\* chart_counts: the number of descriptors per tag ...
CountTag(charts, tag) == Cardinality({i \in 1..Len(charts) : charts[i].tag = tag})

\* ... and the order of its keys: a dict keeps the order of first insertion.
RECURSIVE KeyOrder(_, _)
KeyOrder(charts, seen) ==
  IF charts = << >> THEN << >>
  ELSE IF Head(charts).tag \in seen THEN KeyOrder(Tail(charts), seen)
  ELSE << Head(charts).tag >> \o KeyOrder(Tail(charts), seen \cup {Head(charts).tag})

\* range(count)
IndexRange(count) == [i \in 1..count |-> i - 1]

\* The (tag, idx) pairs of the two nested loops, in the order they run.
RECURSIVE CaptureLoop(_, _)
CaptureLoop(charts, keys) ==
  IF keys = << >> THEN << >>
  ELSE LET tag == Head(keys)
           count == CountTag(charts, tag)
           idxs == IndexRange(count)
       IN [k \in 1..Len(idxs) |-> [tag |-> tag, index |-> idxs[k], count |-> count]]
          \o CaptureLoop(charts, Tail(keys))

\* A file name without the ordinal.
filepath_noOrdinal(tag, idx, count) ==
  [stem |-> Stem(chart_name(tag), << >>), ext |-> "svg"]

\* filename = f"{chart_name}_{idx}.svg" if count > 1 else f"{chart_name}.svg"
filepath(tag, idx, count) ==
  IF count > 1 THEN [stem |-> Stem(chart_name(tag), << idx >>), ext |-> "svg"]
  ELSE [stem |-> Stem(chart_name(tag), << >>), ext |-> "svg"]

ScrapeIdle ==
  [pc |-> "idle", charts |-> << >>, calls |-> << >>, captured |-> << >>]

\* ------------------------------------------------------------- state
VARIABLES
  page,          \* the page loaded in the attached tab
  heat_map_png,  \* self.heat_map_png
  frame_id,      \* self._frame_id ("none" for None)
  findLog,       \* the results of the find_charts_in_shadow_dom calls so far
  cap,           \* the latest direct capture_chart_by_tag call and its outcome
  scrape,        \* the scrape_current_page call in progress or just finished
  cpc,           \* the position of connect()
  driver,        \* self.driver ("None" or "set")
  launched,      \* connect's local: "unset", "fresh" or "existing"
  waited,        \* half seconds spent in the polling loop in progress
  site,          \* the call site of the running precondition check
  tabTry,        \* the loop variable of _ensure_debugger_target's retry loop
  newTabRequests, \* GET /json/new requests issued so far
  passed,        \* the preconditions that have passed, in order
  probed,        \* the endpoints connect() has probed so far
  attempts,      \* webdriver.Chrome(...) calls made so far
  waits,         \* the backoff sleeps of the attach loop, in seconds, in order
  recheck,       \* the results of the latest re-verification before a retry
  snapshot,      \* _log_debugger_snapshot has run
  error,         \* the error connect() raised ("none" for none)
  wf,            \* the report workflow that runs ("none" outside a workflow)
  wpc,           \* the step the workflow is at
  scraping,      \* chart scraping is enabled (no --disable-scraping)
  created,       \* the workflow has constructed a TruMediaScraper
  connectCalled, \* the workflow has called scraper.connect()
  closed,        \* the workflow has called scraper.close()
  printed,       \* the __RESULT_JSON__ lines printed, in order
  exitStatus,    \* the exit status of the process ("none" while it runs)
  pdf,           \* the PDF has been generated
  faults,        \* the steps of the workflow that have failed
  frameLog,      \* the captures of a scraper that went to _download_resource
  pct,           \* a statistic value and what a formatting path made of it
  sc             \* the scouting workflow's browser session

domVars == << page, heat_map_png, frame_id, findLog, cap, scrape >>

connVars ==
  << cpc, driver, launched, waited, site, tabTry, newTabRequests, passed, probed,
     attempts, waits, recheck, snapshot, error >>

wfVars ==
  << wf, wpc, scraping, created, connectCalled, closed, printed, exitStatus, pdf, faults >>

extVars == << frameLog, pct, sc >>

NoPct == [path |-> "none"]

\* The scouting session before it starts:
\*   pc       where main is between connect() and scraper.close()
\*   gap      total_height - current_position, in scroll increments (rounded up)
\*   waited   total_waited of the roster wait
\*   found    roster_found
\*   roster   what the roster script gave extract_pitcher_info
\*   pitchers len(pitchers) after the extraction
\*   placeholder  main put the "Unknown Pitcher" entry in
\*   n, m     the heat maps and pitch-break charts the locator finds
\*   log      one entry per scrape_pitcher_charts call
ScoutIdle ==
  [pc |-> "idle", gap |-> 0, waited |-> 0, found |-> FALSE, roster |-> "unread",
   pitchers |-> 0, placeholder |-> FALSE, n |-> 0, m |-> 0, log |-> << >>]

\* No download has run, nothing has been formatted, no scouting session runs.
ExtIdle ==
  /\ frameLog = << >>
  /\ pct = NoPct
  /\ sc = ScoutIdle

\* No workflow runs: the scraper is driven directly.
WorkflowIdle ==
  /\ wf = "none"
  /\ wpc = "none"
  /\ scraping = TRUE
  /\ created = FALSE
  /\ connectCalled = FALSE
  /\ closed = FALSE
  /\ printed = << >>
  /\ exitStatus = "none"
  /\ pdf = FALSE
  /\ faults = {}

\* Calls of find_charts_in_shadow_dom followed in one behaviour.
MaxRuns == 2

\* The tags a caller asks capture_chart_by_tag for.
CaptureTags == {HEAT_MAP, PITCH_BREAK}

\* Destination paths of direct capture calls.
DefaultPath == [stem |-> Stem("chart", << >>), ext |-> "svg"]

OutPaths == { DefaultPath, [stem |-> Stem("heatmap", << 1 >>), ext |-> "png"] }

SmallPages == { pg \in Pages : Len(pg.nodes) <= 1 }

\* connect() has returned on its first attach attempt to a running browser.
Connected ==
  /\ cpc = "returned"
  /\ driver = "set"
  /\ launched = "existing"
  /\ waited = 0
  /\ site = "first"
  /\ tabTry = 0
  /\ newTabRequests = 0
  /\ passed = << "port", "debugger", "tab" >>
  /\ probed = {"port", "version", "list"}
  /\ attempts = 1
  /\ waits = << >>
  /\ recheck = [debugger |-> "none", tab |-> "none"]
  /\ snapshot = FALSE
  /\ error = "none"

DomInit(pages, flags) ==
  /\ page \in pages
  /\ heat_map_png \in flags
  /\ frame_id = "none"
  /\ findLog = << >>
  /\ cap = NoCapture
  /\ scrape = ScrapeIdle
  /\ Connected
  /\ WorkflowIdle
  /\ ExtIdle

\* A list of charts kept from the run before.
StaleCharts == IF findLog = << >> THEN << >> ELSE findLog[Len(findLog)]

\* The list the locator starts from: let charts = [].
FreshCharts == << >>

\* What one call of find_charts_in_shadow_dom returns.
FindResult == FreshCharts \o find_charts_in_shadow_dom(page)

Find ==
  /\ scrape.pc = "idle"
  /\ Len(findLog) < MaxRuns
  /\ findLog' = Append(findLog, FindResult)
  /\ UNCHANGED << page, heat_map_png, frame_id, cap, scrape, connVars, wfVars, extVars >>

\* A direct call capture_chart_by_tag(tag, index, path) on a page whose charts
\* the caller has discovered: the first capture after the page has loaded.
Capture(contents, paths) ==
  /\ scrape.pc = "idle"
  /\ findLog # << >>
  /\ cap = NoCapture
  /\ \E tag \in CaptureTags, index \in 0..MaxNodes, path \in paths, c \in contents :
       LET r == capture_chart_by_tag(page, heat_map_png, frame_id, tag, index, path, c)
       IN /\ cap' = r
          /\ frame_id' = r.frame_id
  /\ UNCHANGED << page, heat_map_png, findLog, scrape, connVars, wfVars, extVars >>

\* scrape_current_page up to the capture loop: find the charts; return []
\* when there are none.
ScrapeStart ==
  /\ scrape.pc = "idle"
  /\ findLog = << >>
  /\ cap = NoCapture
  /\ LET charts == FindResult
     IN /\ findLog' = Append(findLog, charts)
        /\ scrape' = [pc |-> IF charts = << >> THEN "done" ELSE "loop",
                      charts |-> charts, calls |-> << >>, captured |-> << >>]
  /\ UNCHANGED << page, heat_map_png, frame_id, cap, connVars, wfVars, extVars >>

\* One iteration of the capture loop, and the return after the last one.
ScrapeStep(contents) ==
  /\ scrape.pc = "loop"
  /\ LET plan == CaptureLoop(scrape.charts, KeyOrder(scrape.charts, {}))
         k == Len(scrape.calls) + 1
         call == plan[k]
     IN \E c \in contents :
          LET r == capture_chart_by_tag(page, heat_map_png, frame_id, call.tag, call.index,
                                        filepath(call.tag, call.index, call.count), c)
          IN /\ scrape' = [scrape EXCEPT
                             !.calls = Append(@, [tag |-> r.tag, index |-> r.index,
                                                  found |-> r.found, el |-> r.el,
                                                  path |-> r.path, written |-> r.written]),
                             !.captured = IF r.raised \/ r.ret = NoFile THEN @
                                          ELSE Append(@, r.ret),
                             !.pc = IF r.raised THEN "raised"
                                    ELSE IF k = Len(plan) THEN "done" ELSE "loop"]
             /\ frame_id' = r.frame_id
  /\ UNCHANGED << page, heat_map_png, findLog, cap, connVars, wfVars, extVars >>

\* The captures of one scraper that are followed: those that reach
\* _download_resource.
MaxDownloads == 3

\* Contents of the download specification: the in-page fetch fails, so the
\* capture goes to _download_resource, where the frame tree names one of two
\* frames or none and the resource has content or not; or vector markup.
DownloadContents ==
  { WithSvg([NoImage EXCEPT !.image = "xhr_fail", !.frame = f, !.resource = r], FALSE) :
      f \in {"id", "id2", "none"}, r \in {"none", "png"} }
  \cup { WithSvg(NoImage, TRUE) }

\* A further call capture_chart_by_tag(tag, 0, path) on the scraper.
CaptureNext ==
  /\ scrape.pc = "idle"
  /\ Len(frameLog) < MaxDownloads
  /\ \E tag \in CaptureTags, c \in DownloadContents :
       LET r == capture_chart_by_tag(page, heat_map_png, frame_id, tag, 0, DefaultPath, c)
           f == FrameIdOrResolve(c, frame_id)
       IN /\ cap' = r
          /\ frame_id' = r.frame_id
          /\ frameLog' = IF r.kind = "href"
                         THEN Append(frameLog,
                                     [page |-> page, before |-> frame_id, issued |-> f.issued,
                                      answer |-> c.frame, used |-> f.id,
                                      after |-> r.frame_id, raised |-> r.raised])
                         ELSE frameLog
  /\ UNCHANGED << page, heat_map_png, findLog, scrape, pct, sc, connVars, wfVars >>

\* self.driver.get(url): the tab loads another page.
Navigate ==
  /\ scrape.pc = "idle"
  /\ page' \in SmallPages \ {page}
  /\ UNCHANGED << heat_map_png, frame_id, findLog, cap, scrape, connVars, wfVars, extVars >>

\* ------------------------------------------------------------ connect
\* Time is counted in half seconds, the sleep of the polling loops.
TicksPerSecond == 2

\* _wait_for_port(timeout=30)
PortTimeout == 30

\* _wait_for_debugger_ready(timeout=60) of connect's precondition
DebuggerTimeout == 60

\* _wait_for_debugger_ready(timeout=15) of the attach loop's re-verification
RecheckTimeout == 15

\* for attempt in range(4)
AttachAttempts == 4

\* for attempt in range(3) of _ensure_debugger_target
TabRetries == 3

\* One iteration of a polling loop: a probe that takes up to its timeout of
\* 1 s, then time.sleep(0.5).
PollTicks == 1..(1 + TicksPerSecond)

ConnFresh ==
  /\ driver = "None"
  /\ launched = "unset"
  /\ waited = 0
  /\ site = "first"
  /\ tabTry = 0
  /\ newTabRequests = 0
  /\ passed = << >>
  /\ probed = {}
  /\ attempts = 0
  /\ waits = << >>
  /\ recheck = [debugger |-> "none", tab |-> "none"]
  /\ snapshot = FALSE
  /\ error = "none"

\* connect() is called on a scraper just constructed.
ConnInit == cpc = "start" /\ ConnFresh

\* connect() raises: the exception leaves connect with self.driver untouched.
Raise(e) ==
  /\ cpc' = "raised"
  /\ error' = e

\* driver_path = self._find_chromedriver()
FindChromedriver ==
  /\ cpc = "start"
  /\ \E found \in BOOLEAN :
       IF found THEN cpc' = "ensure_session" /\ error' = error
       ELSE Raise("no_chromedriver")
  /\ UNCHANGED << driver, launched, waited, site, tabTry, newTabRequests, passed, probed,
                  attempts, waits, recheck, snapshot, domVars, extVars, wfVars >>

\* _ensure_debug_session up to the launch: the port is open (an existing
\* session), or Chrome is launched; _launch_chrome raises without its script.
EnsureDebugSession ==
  /\ cpc = "ensure_session"
  /\ probed' = probed \cup {"port"}
  /\ \E open \in BOOLEAN, script \in BOOLEAN :
       IF open
       THEN /\ launched' = "existing"
            /\ passed' = Append(passed, "port")
            /\ cpc' = "wait_debugger"
            /\ error' = error
       ELSE /\ UNCHANGED << launched, passed >>
            /\ IF script THEN cpc' = "wait_port" /\ error' = error
               ELSE Raise("launch_script_missing")
  /\ waited' = 0
  /\ UNCHANGED << driver, site, tabTry, newTabRequests, attempts, waits, recheck,
                  snapshot, domVars, extVars, wfVars >>

\* One iteration of _wait_for_port's loop; on success _ensure_debug_session
\* sleeps 5 s and returns True.
WaitForPortPoll ==
  /\ cpc = "wait_port"
  /\ waited < PortTimeout * TicksPerSecond
  /\ \E open \in BOOLEAN :
       IF open
       THEN /\ launched' = "fresh"
            /\ passed' = Append(passed, "port")
            /\ cpc' = "wait_debugger"
            /\ waited' = 0
       ELSE /\ \E d \in PollTicks : waited' = waited + d
            /\ UNCHANGED << launched, passed, cpc >>
  /\ UNCHANGED << driver, site, tabTry, newTabRequests, probed, attempts, waits, recheck,
                  snapshot, error, domVars, extVars, wfVars >>

\* _wait_for_port returns False: "Chrome failed to expose the remote debugging port."
WaitForPortTimeout ==
  /\ cpc = "wait_port"
  /\ waited >= PortTimeout * TicksPerSecond
  /\ Raise("launch_timeout")
  /\ UNCHANGED << driver, launched, waited, site, tabTry, newTabRequests, passed, probed,
                  attempts, waits, recheck, snapshot, domVars, extVars, wfVars >>

\* The timeout of the running _wait_for_debugger_ready call, in ticks.
DebuggerDeadline ==
  (IF site = "retry" THEN RecheckTimeout ELSE DebuggerTimeout) * TicksPerSecond

\* What follows _wait_for_debugger_ready returning `ready`: connect raises
\* when its precondition fails; the attach loop ignores the result.
AfterDebuggerReady(ready) ==
  IF site = "retry"
  THEN /\ recheck' = [recheck EXCEPT !.debugger = IF ready THEN "ready" ELSE "not_ready"]
       /\ cpc' = "list_tabs"
       /\ UNCHANGED << passed, error >>
  ELSE /\ UNCHANGED recheck
       /\ IF ready
          THEN /\ passed' = Append(passed, "debugger")
               /\ cpc' = "list_tabs"
               /\ error' = error
          ELSE /\ Raise("debugger_not_ready")
               /\ UNCHANGED passed

\* One iteration of _wait_for_debugger_ready's loop: GET /json/version.
WaitForDebuggerPoll ==
  /\ cpc = "wait_debugger"
  /\ waited < DebuggerDeadline
  /\ probed' = probed \cup {"version"}
  /\ \E ready \in BOOLEAN :
       IF ready
       THEN /\ AfterDebuggerReady(TRUE)
            /\ waited' = 0
       ELSE /\ \E d \in PollTicks : waited' = waited + d
            /\ UNCHANGED << cpc, passed, recheck, error >>
  /\ UNCHANGED << driver, launched, site, tabTry, newTabRequests, attempts, waits,
                  snapshot, domVars, extVars, wfVars >>

\* _wait_for_debugger_ready returns False.
WaitForDebuggerTimeout ==
  /\ cpc = "wait_debugger"
  /\ waited >= DebuggerDeadline
  /\ AfterDebuggerReady(FALSE)
  /\ UNCHANGED << driver, launched, waited, site, tabTry, newTabRequests, probed, attempts,
                  waits, snapshot, domVars, extVars, wfVars >>

\* The second tab check without its raise.
NextAfterTarget_noRaise(where, found) ==
  IF where = "retry" THEN "attach"
  ELSE IF found THEN "attach"
  ELSE IF where = "first" THEN "second_check"
  ELSE "attach"

\* A retry branch that stops connect when its tab re-check finds none.
NextAfterTarget_retryRaises(where, found) ==
  IF found THEN "attach"
  ELSE IF where = "first" THEN "second_check"
  ELSE "no_tab"

\* Where connect goes when _ensure_debugger_target returns `found` at the
\* given call site: the first check is repeated once after 2 s, the second
\* raises, the attach loop's ignores the result.
NextAfterTarget(where, found) ==
  IF where = "retry" THEN "attach"
  ELSE IF found THEN "attach"
  ELSE IF where = "first" THEN "second_check"
  ELSE "no_tab"

AfterTarget(found) ==
  LET next == NextAfterTarget(site, found)
  IN /\ recheck' = IF site = "retry"
                   THEN [recheck EXCEPT !.tab = IF found THEN "tab" ELSE "no_tab"]
                   ELSE recheck
     /\ passed' = IF site # "retry" /\ found THEN Append(passed, "tab") ELSE passed
     /\ site' = IF next = "second_check" THEN "second" ELSE site
     /\ IF next = "no_tab" THEN Raise("no_tab")
        ELSE /\ cpc' = IF next = "second_check" THEN "list_tabs" ELSE "attach"
             /\ error' = error

\* _ensure_debugger_target up to its retry loop: GET /json/list.
ListTabs ==
  /\ cpc = "list_tabs"
  /\ probed' = probed \cup {"list"}
  /\ \E answer \in {"error", "bad_json", "tabs", "empty"} :
       IF answer = "empty"
       THEN /\ cpc' = "new_tab"
            /\ UNCHANGED << recheck, passed, site, error >>
       ELSE AfterTarget(answer = "tabs")
  /\ tabTry' = 0
  /\ UNCHANGED << driver, launched, waited, newTabRequests, attempts, waits, snapshot,
                  domVars, extVars, wfVars >>

\* A retry loop running one iteration too many.
TabLoopContinues_oneMore(attempt) == attempt + 1 < TabRetries + 1

\* for attempt in range(3): another iteration follows iteration `attempt`.
TabLoopContinues(attempt) == attempt + 1 < TabRetries

\* One iteration of _ensure_debugger_target's retry loop: GET /json/new, then
\* GET /json/list again. A body of the second that is no JSON raises
\* JSONDecodeError, which the loop does not catch.
NewTab ==
  /\ cpc = "new_tab"
  /\ tabTry < TabRetries
  /\ newTabRequests' = newTabRequests + 1
  /\ \E answer \in {"new_error", "list_error", "bad_json", "tabs", "empty"} :
       IF answer = "tabs" THEN AfterTarget(TRUE) /\ tabTry' = 0
       ELSE IF answer = "bad_json"
       THEN Raise("json_decode") /\ UNCHANGED << recheck, passed, site, tabTry >>
       ELSE IF TabLoopContinues(tabTry)
       THEN /\ tabTry' = tabTry + 1
            /\ UNCHANGED << cpc, recheck, passed, site, error >>
       ELSE AfterTarget(FALSE) /\ tabTry' = 0
  /\ UNCHANGED << driver, launched, waited, probed, attempts, waits, snapshot, domVars, extVars, wfVars >>

\* A fixed backoff.
wait_time_fixed(attempt) == 2

\* wait_time = 2 + attempt
wait_time(attempt) == 2 + attempt

\* The exhaustion branch without its raise: connect falls out of the loop and
\* returns.
AttachEffect_noRaise(outcome, attempt) ==
  IF outcome = "ok"
  THEN [branch |-> "break", next |-> "returned", error |-> "none"]
  ELSE IF outcome = "session_not_created"
  THEN IF attempt < AttachAttempts - 1
       THEN [branch |-> "retry", next |-> "wait_debugger", error |-> "none"]
       ELSE [branch |-> "exhausted", next |-> "returned", error |-> "none"]
  ELSE [branch |-> "uncaught", next |-> "raised", error |-> "webdriver_error"]

\* The exhaustion branch taken one attempt early.
AttachEffect_earlyExhaustion(outcome, attempt) ==
  IF outcome = "ok"
  THEN [branch |-> "break", next |-> "returned", error |-> "none"]
  ELSE IF outcome = "session_not_created"
  THEN IF attempt < AttachAttempts - 2
       THEN [branch |-> "retry", next |-> "wait_debugger", error |-> "none"]
       ELSE [branch |-> "exhausted", next |-> "raised", error |-> "session_not_created"]
  ELSE [branch |-> "uncaught", next |-> "raised", error |-> "webdriver_error"]

\* What an attach attempt leads to, attempt being the loop variable: break
\* with the driver set, the retry branch, the exhaustion branch (snapshot and
\* re-raise), or an exception the loop does not catch.
AttachEffect(outcome, attempt) ==
  IF outcome = "ok"
  THEN [branch |-> "break", next |-> "returned", error |-> "none"]
  ELSE IF outcome = "session_not_created"
  THEN IF attempt < AttachAttempts - 1
       THEN [branch |-> "retry", next |-> "wait_debugger", error |-> "none"]
       ELSE [branch |-> "exhausted", next |-> "raised", error |-> "session_not_created"]
  ELSE [branch |-> "uncaught", next |-> "raised", error |-> "webdriver_error"]

\* One iteration of the attach loop: webdriver.Chrome(...), and on
\* SessionNotCreatedException the backoff sleep or the snapshot and re-raise.
Attach ==
  /\ cpc = "attach"
  /\ attempts < AttachAttempts
  /\ attempts' = attempts + 1
  /\ \E outcome \in {"ok", "session_not_created", "webdriver_error"} :
       LET eff == AttachEffect(outcome, attempts)
       IN /\ driver' = IF eff.branch = "break" THEN "set" ELSE driver
          /\ waits' = IF eff.branch = "retry" THEN Append(waits, wait_time(attempts))
                      ELSE waits
          /\ snapshot' = IF eff.branch = "exhausted" THEN TRUE ELSE snapshot
          /\ site' = IF eff.branch = "retry" THEN "retry" ELSE site
          /\ recheck' = IF eff.branch = "retry" THEN [debugger |-> "none", tab |-> "none"]
                        ELSE recheck
          /\ probed' = IF eff.branch = "exhausted" THEN probed \cup {"version", "list"}
                       ELSE probed
          /\ cpc' = eff.next
          /\ error' = IF eff.error = "none" THEN error ELSE eff.error
  /\ waited' = 0
  /\ UNCHANGED << launched, tabTry, newTabRequests, passed, domVars, extVars, wfVars >>

NextConnect ==
  \/ FindChromedriver
  \/ EnsureDebugSession
  \/ WaitForPortPoll
  \/ WaitForPortTimeout
  \/ WaitForDebuggerPoll
  \/ WaitForDebuggerTimeout
  \/ ListTabs
  \/ NewTab
  \/ Attach

\* ---------------------------------------------------------- workflows
Workflows == {"hitting", "pitching", "umpire", "scouting"}

\* The steps of each workflow's run, in the order the code takes them:
\* argument parsing, the hitting report's name check, the API token, the
\* statistics, the chart scraping, the PDF, the success result.
Steps(w) ==
  IF w = "hitting" THEN << "parse", "name", "token", "stats", "scrape", "pdf", "success" >>
  ELSE IF w = "pitching" THEN << "parse", "scrape", "token", "stats", "pdf", "success" >>
  ELSE IF w = "umpire" THEN << "parse", "token", "scrape", "stats", "pdf", "success" >>
  ELSE << "parse", "scrape", "pdf", "success" >>

\* Workflows with a --disable-scraping flag.
HasDisableFlag(w) == w \in {"hitting", "pitching"}

IndexOf(seq, x) == CHOOSE i \in 1..Len(seq) : seq[i] = x

\* The step that follows `step`; the scraping step is skipped when scraping
\* is disabled.
StepAfter(w, step, enabled) ==
  LET next == Steps(w)[IndexOf(Steps(w), step) + 1]
  IN IF next = "scrape" /\ ~enabled
     THEN Steps(w)[IndexOf(Steps(w), step) + 2]
     ELSE next

\* The steps main's try block covers: an exception raised in one of them
\* reaches main's `except Exception`.
InTry(w, step) ==
  IF w = "pitching" THEN step # "parse"
  ELSE step \notin {"parse", "name"}

\* The step runs inside main (the pitching report parses its arguments at
\* module level, before main is called).
InMain(w, step) == ~(w = "pitching" /\ step = "parse")

\* The step completes and the workflow moves on.
Proceed(step) ==
  /\ wpc' = StepAfter(wf, step, scraping)
  /\ UNCHANGED << printed, exitStatus >>

\* The process ends with the given status and no result line.
ExitWithoutResult(status) ==
  /\ wpc' = "exited"
  /\ exitStatus' = status
  /\ UNCHANGED printed

\* main's `except Exception` handler: print the failure result, end with 1.
OuterHandler(w) == [print |-> TRUE, status |-> "1"]

\* An exception reaches main's handler.
Fail ==
  /\ wpc' = "exited"
  /\ printed' = IF OuterHandler(wf).print THEN Append(printed, "failure") ELSE printed
  /\ exitStatus' = OuterHandler(wf).status

\* args = parser.parse_args(): argparse ends the process with status 2 when
\* the arguments do not parse.
ParseArgs ==
  /\ wpc = "parse"
  /\ \E ok \in BOOLEAN :
       IF ok THEN Proceed("parse") ELSE ExitWithoutResult("2")
  /\ UNCHANGED << wf, scraping, created, connectCalled, closed, pdf, faults,
                  domVars, extVars, connVars >>

\* The hitting report's check that the player name has two parts:
\* print the error and sys.exit(1).
NameCheck ==
  /\ wpc = "name"
  /\ \E parts \in {1, 2} :
       IF parts < 2 THEN ExitWithoutResult("1") ELSE Proceed("name")
  /\ UNCHANGED << wf, scraping, created, connectCalled, closed, pdf, faults,
                  domVars, extVars, connVars >>

\* The API token request, which raises when it fails.
GetToken ==
  /\ wpc = "token"
  /\ \E ok \in BOOLEAN :
       IF ok THEN Proceed("token") /\ UNCHANGED faults
       ELSE Fail /\ faults' = faults \cup {"token"}
  /\ UNCHANGED << wf, scraping, created, connectCalled, closed, pdf, domVars, extVars, connVars >>

\* What a statistics fetch returns: rows, no rows, or nothing (the request or
\* the parsing failed).
FetchResults == {"data", "empty", "none"}

\* The statistics step raises: the hitting report raises without full-season
\* or date-range rows and subscripts a split that is None; the fetches of the
\* pitching and umpire reports return empty frames instead.
StatsRaise(w, base, split) ==
  w = "hitting" /\ (base # "data" \/ split = "none")

\* The fetches of the statistics step that came back without rows: the
\* full-season or date-range fetch ("base"), and a vs-left or vs-right split
\* that returned None ("split_none") or an empty frame ("split_empty").
FetchFaults(base, split) ==
  (IF base # "data" THEN {"base"} ELSE {})
    \cup (IF split = "none" THEN {"split_none"} ELSE {})
    \cup (IF split = "empty" THEN {"split_empty"} ELSE {})

FetchStats ==
  /\ wpc = "stats"
  /\ \E base \in FetchResults, split \in FetchResults :
       IF StatsRaise(wf, base, split)
       THEN Fail /\ faults' = faults \cup FetchFaults(base, split) \cup {"stats"}
       ELSE Proceed("stats") /\ faults' = faults \cup FetchFaults(base, split)
  /\ UNCHANGED << wf, scraping, created, connectCalled, closed, pdf, domVars, extVars, connVars >>

\* scraper = TruMediaScraper(...); scraper.connect(): connect() starts on the
\* scraper just constructed.
StartScraping ==
  /\ wpc = "scrape"
  /\ cpc = "idle"
  /\ created' = TRUE
  /\ connectCalled' = TRUE
  /\ cpc' = "start"
  /\ wpc' = "connecting"
  /\ UNCHANGED << wf, scraping, closed, printed, exitStatus, pdf, faults, domVars, extVars,
                  driver, launched, waited, site, tabTry, newTabRequests, passed, probed,
                  attempts, waits, recheck, snapshot, error >>

\* A scraping block that lets the exception through to main's handler.
ScrapeHandler_propagate(w) == [caught |-> FALSE, close |-> FALSE]

\* What the workflow does with an exception of connect() or of the scraping
\* that follows it: the hitting, pitching and umpire reports catch it around
\* the scraping block and close the scraper in a finally; the scouting report
\* has neither, the exception reaches main's handler.
ScrapeHandler(w) ==
  IF w = "scouting" THEN [caught |-> FALSE, close |-> FALSE]
  ELSE [caught |-> TRUE, close |-> TRUE]

\* An exception leaves the scraping block.
ScrapeFailed ==
  /\ faults' = faults \cup {"scrape"}
  /\ closed' = (closed \/ ScrapeHandler(wf).close)
  /\ IF ScrapeHandler(wf).caught THEN Proceed("scrape") ELSE Fail

\* connect() has ended: the scraping goes on when it returned.
ConnectDone ==
  /\ wpc = "connecting"
  /\ cpc \in {"returned", "raised"}
  /\ IF cpc = "raised" THEN ScrapeFailed
     ELSE /\ wpc' = "scraping"
          /\ UNCHANGED << closed, printed, exitStatus, faults >>
  /\ UNCHANGED << wf, scraping, created, connectCalled, pdf, domVars, extVars, connVars >>

\* The use of the connected scraper (navigation, scrape_current_page or the
\* scouting report's roster and per-pitcher captures), then scraper.close().
UseScraper ==
  /\ wpc = "scraping"
  /\ \E ok \in BOOLEAN :
       IF ok
       THEN /\ closed' = TRUE
            /\ Proceed("scrape")
            /\ UNCHANGED faults
       ELSE ScrapeFailed
  /\ UNCHANGED << wf, scraping, created, connectCalled, pdf, domVars, extVars, connVars >>

\* The PDF generation, which may raise.
GeneratePdf ==
  /\ wpc = "pdf"
  /\ \E ok \in BOOLEAN :
       IF ok THEN /\ pdf' = TRUE
                  /\ Proceed("pdf")
                  /\ UNCHANGED faults
       ELSE /\ Fail
            /\ faults' = faults \cup {"pdf"}
            /\ UNCHANGED pdf
  /\ UNCHANGED << wf, scraping, created, connectCalled, closed, domVars, extVars, connVars >>

\* print the success result; the process ends with status 0.
PrintSuccess ==
  /\ wpc = "success"
  /\ printed' = Append(printed, "success")
  /\ exitStatus' = "0"
  /\ wpc' = "exited"
  /\ UNCHANGED << wf, scraping, created, connectCalled, closed, pdf, faults,
                  domVars, extVars, connVars >>

NextWorkflow ==
  \/ ParseArgs
  \/ NameCheck
  \/ GetToken
  \/ FetchStats
  \/ StartScraping
  \/ NextConnect
  \/ ConnectDone
  \/ UseScraper
  \/ GeneratePdf
  \/ PrintSuccess

vars == << domVars, connVars, wfVars, extVars >>

\* Contents of the locator-centred specification: vector markup or an inline
\* image.
LocatorContents ==
  { WithSvg(NoImage, TRUE), WithSvg([NoImage EXCEPT !.img = "data", !.srctype = "image/png"], FALSE) }

\* Contents of the scrape_current_page specification: vector markup, nothing,
\* or an image that makes the capture script throw.
ScrapeContents ==
  { WithSvg(NoImage, TRUE), WithSvg(NoImage, FALSE),
    WithSvg([NoImage EXCEPT !.img = "tainted"], FALSE) }

\* Contents of the file-naming specification: vector markup, nothing, or a
\* canvas exported as PNG.
FileContents ==
  { WithSvg(NoImage, TRUE), WithSvg(NoImage, FALSE),
    WithSvg([NoImage EXCEPT !.canvas = "ok"], FALSE) }

\* Pages whose elements all sit directly in the application root's shadow
\* root.
FlatPages ==
  { pg \in Pages : pg.app = "open" /\ \A i \in 1..Len(pg.nodes) : pg.nodes[i].parent = 0 }

Init == DomInit(Pages, {TRUE})

Next ==
  \/ Find
  \/ Capture(LocatorContents, {DefaultPath})

\* The locator and direct captures over every page of up to MaxNodes elements,
\* on a scraper constructed with the default heat_map_png=True.
Spec == Init /\ [][Next]_vars

NextScrape ==
  \/ ScrapeStart
  \/ ScrapeStep(ScrapeContents)

\* scrape_current_page over every page of up to MaxNodes elements.
SpecScrape == Init /\ [][NextScrape]_vars

InitScrapeFiles == DomInit(FlatPages, {TRUE})

NextScrapeFiles ==
  \/ ScrapeStart
  \/ ScrapeStep(FileContents)

InitDownloads == DomInit(SmallPages, {TRUE})

NextDownloads ==
  \/ CaptureNext
  \/ Navigate

\* A sequence of captures and page loads on one scraper.
SpecDownloads == InitDownloads /\ [][NextDownloads]_vars

\* scrape_current_page runs whose captures write vector and raster files.
SpecScrapeFiles == InitScrapeFiles /\ [][NextScrapeFiles]_vars

InitCapture == DomInit(SmallPages, BOOLEAN)

NextCapture ==
  \/ Find
  \/ Capture(Contents, OutPaths)

\* Direct captures over every content of the matched chart and both values of
\* heat_map_png, on pages of at most one element.
SpecCapture == InitCapture /\ [][NextCapture]_vars

\* A scraper just constructed, before any page is loaded.
InitConnect ==
  /\ ConnInit
  /\ page = [app |-> "absent", nodes |-> << >>]
  /\ heat_map_png \in BOOLEAN
  /\ frame_id = "none"
  /\ findLog = << >>
  /\ cap = NoCapture
  /\ scrape = ScrapeIdle
  /\ WorkflowIdle
  /\ ExtIdle

\* connect() on a fresh scraper, against every answer of the browser.
SpecConnect == InitConnect /\ [][NextConnect]_vars

\* A workflow started from the command line, no scraper constructed yet.
InitWorkflow ==
  /\ wf \in Workflows
  /\ wpc = "parse"
  /\ scraping \in (IF HasDisableFlag(wf) THEN BOOLEAN ELSE {TRUE})
  /\ created = FALSE
  /\ connectCalled = FALSE
  /\ closed = FALSE
  /\ printed = << >>
  /\ exitStatus = "none"
  /\ pdf = FALSE
  /\ faults = {}
  /\ cpc = "idle"
  /\ ConnFresh
  /\ page = [app |-> "absent", nodes |-> << >>]
  /\ heat_map_png = TRUE
  /\ frame_id = "none"
  /\ findLog = << >>
  /\ cap = NoCapture
  /\ scrape = ScrapeIdle
  /\ ExtIdle

\* The four report workflows from the command line to the end of the process,
\* with connect() run against every answer of the browser.
SpecWorkflow == InitWorkflow /\ [][NextWorkflow]_vars

\* ------------------------------------------------------ scouting report
\* charts_per_pitcher = 18
ChartsPerPitcher == 18

\* max_wait = 10, with wait_interval = 1
RosterMaxWait == 10

\* The largest distance of the page's bottom from the scroll position that is
\* told apart, in scroll increments.
MaxGap == 2

\* The largest roster and the most heat maps followed.
MaxPitchers == 2

MaxHeatMaps == 20

Min(a, b) == IF a < b THEN a ELSE b

Max(a, b) == IF a > b THEN a ELSE b

\* An exception leaves main's try block while the scouting session runs.
ScoutFail ==
  /\ ScrapeFailed
  /\ sc' = [sc EXCEPT !.pc = "left"]

ScoutGoesOn == UNCHANGED << wpc, closed, printed, exitStatus, faults >>

\* scraper.driver.get(url), the fixed sleeps, the scroll to the bottom and the
\* first reading of document.body.scrollHeight.
ScoutNavigate ==
  /\ wpc = "scraping"
  /\ sc.pc = "navigate"
  /\ \/ ScoutFail
     \/ /\ \E height \in 0..MaxGap : sc' = [sc EXCEPT !.pc = "scroll", !.gap = height]
        /\ ScoutGoesOn
  /\ UNCHANGED << wf, scraping, created, connectCalled, pdf, frameLog, pct, domVars, connVars >>

\* One iteration of the progressive scroll: current_position += scroll_increment,
\* and total_height becomes new_height when that is larger. newGap is
\* new_height - current_position after the step.
ScrollGap(gap, newGap) == Max(gap - 1, newGap)

ScrollStep ==
  /\ wpc = "scraping"
  /\ sc.pc = "scroll"
  /\ sc.gap > 0
  /\ \/ ScoutFail
     \/ /\ \E newGap \in 0..MaxGap : sc' = [sc EXCEPT !.gap = ScrollGap(sc.gap, newGap)]
        /\ ScoutGoesOn
  /\ UNCHANGED << wf, scraping, created, connectCalled, pdf, frameLog, pct, domVars, connVars >>

\* while current_position < total_height ends; the final scrolls and sleeps.
ScrollEnd ==
  /\ wpc = "scraping"
  /\ sc.pc = "scroll"
  /\ sc.gap = 0
  /\ sc' = [sc EXCEPT !.pc = "roster_wait"]
  /\ ScoutGoesOn
  /\ UNCHANGED << wf, scraping, created, connectCalled, pdf, frameLog, pct, domVars, connVars >>

\* One iteration of the roster wait: count the entity items, break when there
\* are some, else sleep wait_interval.
RosterPoll ==
  /\ wpc = "scraping"
  /\ sc.pc = "roster_wait"
  /\ sc.waited < RosterMaxWait
  /\ \/ ScoutFail
     \/ /\ \E some \in BOOLEAN :
             sc' = IF some THEN [sc EXCEPT !.found = TRUE, !.pc = "extract"]
                   ELSE [sc EXCEPT !.waited = @ + 1]
        /\ ScoutGoesOn
  /\ UNCHANGED << wf, scraping, created, connectCalled, pdf, frameLog, pct, domVars, connVars >>

\* while total_waited < max_wait ends without a roster: a warning only.
RosterTimeout ==
  /\ wpc = "scraping"
  /\ sc.pc = "roster_wait"
  /\ sc.waited >= RosterMaxWait
  /\ sc' = [sc EXCEPT !.pc = "extract"]
  /\ ScoutGoesOn
  /\ UNCHANGED << wf, scraping, created, connectCalled, pdf, frameLog, pct, domVars, connVars >>

\* What the roster script can give: the script raises, None, an empty list,
\* or a list of pitchers.
RosterResults == {"raised", "none", "empty", "list"}

\* An extraction that hands an empty roster back to main.
extract_pitcher_info_softEmpty(result, count) ==
  IF result = "raised" THEN [raised |-> TRUE, pitchers |-> 0]
  ELSE IF result = "list" THEN [raised |-> FALSE, pitchers |-> count]
  ELSE [raised |-> FALSE, pitchers |-> 0]

\* extract_pitcher_info(scraper): RuntimeError unless the script gave a
\* non-empty list.
extract_pitcher_info(result, count) ==
  IF result = "list" /\ count > 0 THEN [raised |-> FALSE, pitchers |-> count]
  ELSE [raised |-> TRUE, pitchers |-> 0]

\* pitchers = extract_pitcher_info(scraper); if not pitchers: the placeholder
\* entry. The page's charts are fixed from here on; total_waited and
\* roster_found are not read again and are dropped.
ExtractRoster ==
  /\ wpc = "scraping"
  /\ sc.pc = "extract"
  /\ \E result \in RosterResults, count \in 1..MaxPitchers,
        n \in 0..MaxHeatMaps, m \in 0..MaxPitchers :
       LET r == extract_pitcher_info(result, count)
       IN IF r.raised
          THEN /\ ScrapeFailed
               /\ sc' = [sc EXCEPT !.pc = "left", !.roster = result,
                                   !.waited = 0, !.found = FALSE]
          ELSE /\ sc' = [sc EXCEPT !.pc = "pitchers", !.roster = result,
                                   !.waited = 0, !.found = FALSE,
                                   !.pitchers = IF r.pitchers = 0 THEN 1 ELSE r.pitchers,
                                   !.placeholder = (r.pitchers = 0),
                                   !.n = n, !.m = m]
               /\ ScoutGoesOn
  /\ UNCHANGED << wf, scraping, created, connectCalled, pdf, frameLog, pct, domVars, connVars >>

\* A capture loop that starts every pitcher at ordinal 0.
HeatMapOrdinals_noOffset(pitcher_index, n) ==
  [i \in 1..Max(0, Min(18, n - pitcher_index * ChartsPerPitcher)) |-> i - 1]

\* The ordinals chart_offset + idx for idx in
\* range(min(18, len(heat_map_charts) - chart_offset)).
HeatMapOrdinals(pitcher_index, n) ==
  LET chart_offset == pitcher_index * ChartsPerPitcher
  IN [i \in 1..Max(0, Min(18, n - chart_offset)) |-> chart_offset + (i - 1)]

\* if len(movement_charts) > pitcher_index
MovementRequested(pitcher_index, m) == m > pitcher_index

\* One call scrape_pitcher_charts(scraper, pitcher, i, charts_dir): the locator
\* raises, or the captures run until one raises; `except Exception` ends the
\* call softly. A capture that returns None leaves its chart out.
ScrapePitcher ==
  /\ wpc = "scraping"
  /\ sc.pc = "pitchers"
  /\ Len(sc.log) < sc.pitchers
  /\ LET i == Len(sc.log)
         plan == HeatMapOrdinals(i, sc.n)
         entry(heat, movement, fault) ==
           [pitcher |-> i, heat |-> heat, movement |-> movement, fault |-> fault]
     IN \/ sc' = [sc EXCEPT !.log = Append(@, entry(<< >>, FALSE, "raised"))]
        \/ \E k \in 1..Len(plan) :
             sc' = [sc EXCEPT !.log = Append(@, entry(SubSeq(plan, 1, k), FALSE, "raised"))]
        \/ \E fault \in {"none", "missing", "raised"} :
             /\ fault = "raised" => MovementRequested(i, sc.m)
             /\ fault = "missing" => (plan # << >> \/ MovementRequested(i, sc.m))
             /\ sc' = [sc EXCEPT !.log = Append(@, entry(plan, MovementRequested(i, sc.m), fault))]
  /\ ScoutGoesOn
  /\ UNCHANGED << wf, scraping, created, connectCalled, pdf, frameLog, pct, domVars, connVars >>

\* The per-pitcher loop has ended: scraper.close().
CloseScraper ==
  /\ wpc = "scraping"
  /\ sc.pc = "pitchers"
  /\ Len(sc.log) = sc.pitchers
  /\ sc' = [sc EXCEPT !.pc = "left"]
  /\ closed' = TRUE
  /\ Proceed("scrape")
  /\ UNCHANGED << wf, scraping, created, connectCalled, pdf, faults, frameLog, pct,
                  domVars, connVars >>

InitScouting ==
  /\ wf = "scouting"
  /\ wpc = "scraping"
  /\ scraping = TRUE
  /\ created = TRUE
  /\ connectCalled = TRUE
  /\ closed = FALSE
  /\ printed = << >>
  /\ exitStatus = "none"
  /\ pdf = FALSE
  /\ faults = {}
  /\ Connected
  /\ page = [app |-> "absent", nodes |-> << >>]
  /\ heat_map_png = TRUE
  /\ frame_id = "none"
  /\ findLog = << >>
  /\ cap = NoCapture
  /\ scrape = ScrapeIdle
  /\ frameLog = << >>
  /\ pct = NoPct
  /\ sc = [ScoutIdle EXCEPT !.pc = "navigate"]

NextScouting ==
  \/ ScoutNavigate
  \/ ScrollStep
  \/ ScrollEnd
  \/ RosterPoll
  \/ RosterTimeout
  \/ ExtractRoster
  \/ ScrapePitcher
  \/ CloseScraper
  \/ GeneratePdf
  \/ PrintSuccess

\* The scouting report's main from the return of connect() to the end of the
\* process.
SpecScouting == InitScouting /\ [][NextScouting]_vars

\* The same with every step that can run being taken eventually: the process
\* is not suspended.
SpecScoutingFair == SpecScouting /\ WF_vars(NextScouting)

\* --------------------------------------------------- percentage formatting
\* Numbers are counted in thousandths: Unit is the number 1.
Unit == 1000

\* The statistic values followed: ratios k/1000, every hundredth of the range
\* and every thousandth near its ends.
RatioValues == { k \in 0..Unit : k % 10 = 0 \/ k <= 20 \/ k >= Unit - 20 }

\* f"{number:.1f}": the number rounded to one decimal (a tie goes to the even
\* digit), as its whole part and its decimals.
Fixed1(number) ==
  LET q == number \div 100
      r == number % 100
      tenths == IF r > 50 \/ (r = 50 /\ q % 2 = 1) THEN q + 1 ELSE q
  IN [whole |-> tenths \div 10, decimals |-> << tenths % 10 >>]

\* f"{int(percentage)}": the number cut to its whole part.
Whole(number) == [whole |-> number \div Unit, decimals |-> << >>]

\* format_percentage(value, 1) of the pitching report.
format_percentage(value) ==
  LET number == IF 0 <= value /\ value <= Unit THEN value * 100 ELSE value
  IN Fixed1(number)

\* safe_mean(series, 1, True) of the hitting report, val being series.mean().
safe_mean(val) ==
  IF val > Unit THEN Fixed1(val) ELSE Fixed1(val * 100)

\* The hitting report's metric circle: the conversion of stats_dict[key] and
\* the text draw_metric_circle puts in the circle.
metric_circle(value) ==
  LET converted == IF value < Unit THEN value * 100 ELSE value
  IN Whole(converted)

FormatPaths == {"format_percentage", "safe_mean", "metric_circle"}

\* The path has not run yet.
NotFormatted == [whole |-> -1, decimals |-> << >>]

Formatted(path, value) ==
  IF path = "format_percentage" THEN format_percentage(value)
  ELSE IF path = "safe_mean" THEN safe_mean(value)
  ELSE metric_circle(value)

\* One formatting path is given the ratio-scaled value and the
\* percentage-scaled value of the same statistic.
Format(path) ==
  /\ pct.path = path
  /\ pct.ratio = NotFormatted
  /\ pct' = [pct EXCEPT !.ratio = Formatted(path, pct.value),
                        !.percent = Formatted(path, 100 * pct.value)]
  /\ UNCHANGED << frameLog, sc, domVars, connVars, wfVars >>

InitFormat ==
  /\ pct \in [path : FormatPaths, value : RatioValues, ratio : {NotFormatted},
             percent : {NotFormatted}]
  /\ frameLog = << >>
  /\ sc = ScoutIdle
  /\ page = [app |-> "absent", nodes |-> << >>]
  /\ heat_map_png = TRUE
  /\ frame_id = "none"
  /\ findLog = << >>
  /\ cap = NoCapture
  /\ scrape = ScrapeIdle
  /\ cpc = "idle"
  /\ ConnFresh
  /\ WorkflowIdle

NextFormat ==
  \/ Format("format_percentage")
  \/ Format("safe_mean")
  \/ Format("metric_circle")

\* The three percentage formatting paths, on every followed value.
SpecFormat == InitFormat /\ [][NextFormat]_vars

\* ---------------------------------------------------------------- claims
\* The located elements of tag t, in the order the locator enumerated them.
LocatedOfTag(t) == SelectSeq(LocatedCharts(page), LAMBDA d : d.tag = t)

\* C1: capture_chart_by_tag(t, i, ...) with i smaller than the number of
\* t-descriptors the locator returns selects exactly the element of rank i
\* (0-based) among the t-tagged elements in the locator's order.
C1_CaptureSelectsLocatorRank ==
  (cap.tag # "none" /\ cap.index < Len(LocatedOfTag(cap.tag)))
    => (cap.found /\ cap.el = LocatedOfTag(cap.tag)[cap.index + 1].element)

\* A capture of the second or a later chart of its tag, selected inside the
\* shadow root of an element below the application root.
C1_Witness ==
  /\ cap.found
  /\ cap.index >= 1
  /\ page.nodes[cap.el].link = "open"
  /\ page.nodes[cap.el].parent # 0

\* C2: a capture with an index greater than or equal to the number of
\* elements of the tag that the traversal reaches returns None, raises
\* nothing and writes no file.
C2_MissingInstanceReturnsNone ==
  (cap.tag # "none" /\ cap.index >= Len(LocatedOfTag(cap.tag)))
    => (cap.ret = NoFile /\ ~cap.raised /\ cap.written = NoFile)

\* A capture asking for an ordinal past the two or more charts of the tag.
C2_Witness ==
  /\ cap.tag # "none"
  /\ Len(LocatedOfTag(cap.tag)) >= 2
  /\ cap.index >= Len(LocatedOfTag(cap.tag))
  /\ cap.ret = NoFile

\* C3: when the application root is absent, or present without an accessible
\* shadow root, the locator returns the empty sequence and
\* scrape_current_page returns [] without issuing a capture.
C3_GracefulEmptyResult ==
  page.app # "open" =>
    /\ \A i \in 1..Len(findLog) : findLog[i] = << >>
    /\ scrape.pc \in {"idle", "done"}
    /\ scrape.calls = << >>
    /\ scrape.captured = << >>

\* scrape_current_page has returned on a page whose application root hides a
\* heat map in a closed shadow root.
C3_Witness ==
  /\ page.app = "closed"
  /\ Len(page.nodes) = 1
  /\ page.nodes[1].tag = HEAT_MAP
  /\ scrape.pc = "done"
  /\ Len(findLog) = 1

\* A populated raster image in the chart: an img whose source is a base64
\* data URL or that is loaded with a width and a height (of the page's origin
\* or of another), or, without such an img, an exportable canvas.
PopulatedRaster(c) ==
  \/ c.img \in {"data", "draw", "tainted"}
  \/ (c.img \in {"none", "empty"} /\ c.canvas = "ok")

\* A raster image the capture script can read: as above, without the loaded
\* image of another origin, whose pixels the page may not export.
ReadableRaster(c) == PopulatedRaster(c) /\ c.img # "tainted"

\* C4: for a matched chart holding both vector markup and a populated raster
\* image, the capture yields the vector markup and writes it to the given
\* path unless the scraper's heat-map flag is set and the tag is the heat-map
\* tag, and then it yields the inline raster; the raster-first order is used
\* exactly when both hold.
C4_ContentKindPriority ==
  /\ cap.tag # "none" => (cap.prefer <=> (heat_map_png /\ cap.tag = HEAT_MAP))
  /\ (cap.found /\ cap.content.svg /\ PopulatedRaster(cap.content)) =>
       IF heat_map_png /\ cap.tag = HEAT_MAP
       THEN cap.kind = "inline" /\ cap.ret = with_suffix(cap.path, "png")
       ELSE cap.kind = "svg" /\ cap.ret = cap.path

\* What holds of the priority: the same statement for a raster the script can
\* read. captureImage runs before the order is applied, so the image of
\* another origin makes the script throw whatever the order is.
PriorityWithReadableRaster ==
  /\ cap.tag # "none" => (cap.prefer <=> (heat_map_png /\ cap.tag = HEAT_MAP))
  /\ (cap.found /\ cap.content.svg /\ ReadableRaster(cap.content)) =>
       IF heat_map_png /\ cap.tag = HEAT_MAP
       THEN cap.kind = "inline" /\ cap.ret = with_suffix(cap.path, "png")
       ELSE cap.kind = "svg" /\ cap.ret = cap.path
  /\ (cap.found /\ cap.content.img = "tainted") => cap.raised

\* The indexes scrape_current_page has passed for tag t.
IndexesPassed(t) ==
  { scrape.calls[i].index : i \in { k \in 1..Len(scrape.calls) : scrape.calls[k].tag = t } }

\* The ordinals 0..count(t)-1 of the descriptors found.
OrdinalsFound(t) ==
  { n \in 0..Len(scrape.charts) :
      n < Cardinality({ k \in 1..Len(scrape.charts) : scrape.charts[k].tag = t }) }

\* The (tag, index) pairs passed so far are pairwise distinct and select
\* pairwise distinct elements.
DistinctCalls ==
  \A i, j \in 1..Len(scrape.calls) :
    i # j =>
      /\ << scrape.calls[i].tag, scrape.calls[i].index >>
           # << scrape.calls[j].tag, scrape.calls[j].index >>
      /\ scrape.calls[i].found /\ scrape.calls[j].found
      /\ scrape.calls[i].el # scrape.calls[j].el

\* C5: the (tag, index) pairs scrape_current_page passes to
\* capture_chart_by_tag are pairwise distinct; when scrape_current_page has
\* ended, the indexes passed for each tag are exactly 0..count(tag)-1 and the
\* number of capture calls is the number of descriptors found.
C5_OrdinalUniqueness ==
  /\ DistinctCalls
  /\ scrape.pc \in {"done", "raised"} =>
       /\ Len(scrape.calls) = Len(scrape.charts)
       /\ \A t \in Range(CHART_TYPES) : IndexesPassed(t) = OrdinalsFound(t)

\* What holds of the ordinals: the same statement for the runs of
\* scrape_current_page that return; a run a capture raises in ends with the
\* later descriptors not captured.
OrdinalsOnReturn ==
  /\ DistinctCalls
  /\ scrape.pc = "done" =>
       /\ Len(scrape.calls) = Len(scrape.charts)
       /\ \A t \in Range(CHART_TYPES) : IndexesPassed(t) = OrdinalsFound(t)
  /\ scrape.pc = "raised" => Len(scrape.calls) <= Len(scrape.charts)

Preconditions == << "port", "debugger", "tab" >>

IsPrefix(s, t) == Len(s) <= Len(t) /\ \A i \in 1..Len(s) : s[i] = t[i]

\* C7: connect() returns normally only with the driver attached, and whenever
\* it raises, self.driver is left unset; the driver is set by nothing but a
\* successful attach.
C7_ConnectSetsDriverOrRaises ==
  /\ cpc = "returned" => (driver = "set" /\ error = "none")
  /\ cpc = "raised" => (driver = "None" /\ error # "none")
  /\ driver = "set" => cpc = "returned"

\* connect() has returned after two failed attach attempts.
C7_Witness ==
  /\ cpc = "returned"
  /\ attempts = 3
  /\ driver = "set"

\* C8: the preconditions pass in the order port, debugger, tab; the debugger
\* is probed only after the port check passed and the tabs are listed only
\* after the debugger was ready; an attach attempt is made only after all
\* three passed; a launch timeout is raised before any debugger probe, a
\* debugger-not-ready error after the 60 s wait and before any tab check, and
\* no precondition error is followed by an attach attempt.
C8_PreconditionOrder ==
  /\ IsPrefix(passed, Preconditions)
  /\ "version" \in probed => Len(passed) >= 1
  /\ "list" \in probed => Len(passed) >= 2
  /\ attempts > 0 => passed = Preconditions
  /\ error = "launch_timeout" =>
       /\ passed = << >>
       /\ probed = {"port"}
       /\ waited >= PortTimeout * TicksPerSecond
  /\ error = "debugger_not_ready" =>
       /\ passed = << "port" >>
       /\ "list" \notin probed
       /\ waited >= DebuggerTimeout * TicksPerSecond
  /\ error = "no_tab" => passed = << "port", "debugger" >>
  /\ error \in {"launch_timeout", "debugger_not_ready", "no_tab"} =>
       (attempts = 0 /\ driver = "None" /\ cpc = "raised")

\* Chrome was launched and its port opened, but the debugger never became
\* ready: connect() has raised.
C8_Witness ==
  /\ error = "debugger_not_ready"
  /\ launched = "fresh"
  /\ cpc = "raised"

\* C9 as claimed: whenever all 4 attach attempts have failed, connect() has
\* logged the debugger snapshot before raising.
C9_SnapshotWheneverAllAttemptsFail ==
  (attempts = AttachAttempts /\ cpc = "raised") => snapshot

\* C9: at most 4 attach attempts are made; after the fourth failure connect()
\* has raised; the snapshot is logged exactly when the fourth attempt fails
\* with SessionNotCreatedException, which is then the error raised; an
\* attempt that fails with another exception is not retried and raises
\* without a snapshot; after a successful attempt no further one is made.
C9_AttachAttemptsAndSnapshot ==
  /\ attempts <= AttachAttempts
  /\ (attempts = AttachAttempts /\ driver = "None") => cpc = "raised"
  /\ snapshot <=> (cpc = "raised" /\ error = "session_not_created")
  /\ snapshot => (attempts = AttachAttempts /\ driver = "None")
  /\ error = "webdriver_error" => (cpc = "raised" /\ ~snapshot /\ driver = "None")
  /\ driver = "set" => ~ENABLED Attach

\* All four attach attempts failed with SessionNotCreatedException: the
\* snapshot was logged and the error raised.
C9_Witness ==
  /\ attempts = AttachAttempts
  /\ snapshot
  /\ cpc = "raised"
  /\ error = "session_not_created"

\* C10 as claimed: a connect() in which all 4 attach attempts fail has waited
\* 2, 3, 4 and 5 seconds, in that order.
C10_BackoffOfFourWaits ==
  (attempts = AttachAttempts /\ cpc = "raised" /\ error = "session_not_created")
    => waits = << 2, 3, 4, 5 >>

\* C10: the k-th backoff wait is k+1 seconds and follows the k-th failed
\* attempt for k = 1..3; no wait follows the fourth failed attempt, so a
\* connect() in which all 4 attempts fail has waited 2, 3 and 4 seconds.
C10_BackoffSequence ==
  /\ IsPrefix(waits, << 2, 3, 4 >>)
  /\ Len(waits) <= attempts
  /\ attempts > 0 => Len(waits) >= attempts - 1
  /\ (cpc = "attach" /\ attempts > 0) => Len(waits) = attempts
  /\ (cpc = "raised" /\ error = "session_not_created") => waits = << 2, 3, 4 >>

\* All four attempts failed after the waits of 2, 3 and 4 seconds.
C10_Witness ==
  /\ attempts = AttachAttempts
  /\ cpc = "raised"
  /\ error = "session_not_created"
  /\ waits = << 2, 3, 4 >>

\* C11 as claimed: connect() has issued at most 3 create-new-tab requests
\* when its tab-availability precondition fails with the no-tab error.
C11_AtMostThreeNewTabRequests ==
  error = "no_tab" => newTabRequests <= TabRetries

\* C11: one call of _ensure_debugger_target issues at most 3 create-new-tab
\* requests; connect() runs the call twice before it raises the no-tab
\* error, so at most 6 requests precede that error, and at most 3 are issued
\* while the first call runs.
C11_NewTabRequestsPerCall ==
  /\ tabTry < TabRetries
  /\ (attempts = 0 /\ site = "first" /\ cpc # "raised") => newTabRequests <= TabRetries
  /\ attempts = 0 => newTabRequests <= 2 * TabRetries
  /\ error = "no_tab" => newTabRequests <= 2 * TabRetries

\* Both calls found no tab and used all their retries: 6 requests, then the
\* no-tab error.
C11_Witness ==
  /\ error = "no_tab"
  /\ newTabRequests = 2 * TabRetries

\* A capture fault at the matched chart: no content kind resolves, the
\* script throws, or the inline raster is a data URL whose payload base64
\* cannot decode.
CaptureFault ==
  /\ cap.found
  /\ \/ cap.kind \in {"missing", "throw"}
     \/ (cap.kind = "inline" /\ cap.content.img = "data_bad")

\* C15: on a capture fault capture_chart_by_tag returns None, writes no file
\* and does not raise.
C15_CaptureFaultsAreSoft ==
  CaptureFault => (cap.ret = NoFile /\ cap.written = NoFile /\ ~cap.raised)

\* What holds of capture faults: a chart none of whose content kinds resolves
\* gives None without a file or an exception, and a payload that cannot be
\* decoded makes b64decode raise out of capture_chart_by_tag.
UnresolvableContentIsSoft ==
  /\ (cap.found /\ cap.kind = "missing") =>
       (cap.ret = NoFile /\ cap.written = NoFile /\ ~cap.raised)
  /\ (cap.kind = "inline" /\ cap.content.img = "data_bad") => cap.raised

\* C16: when Page.getResourceContent returns no content, the download
\* returns None, raises nothing and writes no file; a download writes a file
\* only when content was returned, and returns the file it wrote.
C16_DownloadSoftFailure ==
  /\ (cap.kind = "href" /\ cap.frame_id # "none" /\ cap.content.resource = "none") =>
       (cap.ret = NoFile /\ cap.written = NoFile /\ ~cap.raised)
  /\ (cap.kind = "href" /\ cap.written # NoFile) =>
       (cap.content.resource # "none" /\ cap.ret = cap.written)

\* A remote-reference capture whose frame id resolved and whose resource came
\* back without content.
C16_Witness ==
  /\ cap.kind = "href"
  /\ cap.frame_id = "id"
  /\ cap.content.resource = "none"
  /\ cap.ret = NoFile
  /\ ~cap.raised

\* C17: the locator, the capture and the downloader never raise; a
\* remote-reference capture whose frame id cannot be resolved returns None.
C17_FaultsReturnSentinels ==
  /\ ~cap.raised
  /\ (cap.kind = "href" /\ cap.content.frame = "none") => cap.ret = NoFile

\* The media type the captured data URL declares: that of the img source, or
\* image/png of a canvas export, or the type of the in-page fetch.
DeclaredType(c) ==
  IF c.img \in {"data", "data_bad"} THEN c.srctype
  ELSE IF c.img \in {"draw", "tainted"} \/ c.canvas = "ok" THEN "image/png"
  ELSE IF c.mime = "none" THEN "image/png"
  ELSE c.mime

\* C18: the file of an inline-raster capture has the extension of the media
\* type its data URL declares.
C18_ExtensionFromDeclaredType ==
  (cap.kind = "inline" /\ cap.written # NoFile) =>
    cap.written.ext = _mime_to_ext(DeclaredType(cap.content))

\* What holds of the extension: it follows the declared type for a data URL
\* built from an in-page fetch, and is png for every data URL taken from an
\* img source or a canvas.
ExtensionFromResultMime ==
  (cap.kind = "inline" /\ cap.written # NoFile) =>
    IF cap.content.img \in {"none", "empty"} /\ cap.content.canvas # "ok"
    THEN cap.written.ext = _mime_to_ext(DeclaredType(cap.content))
    ELSE cap.written.ext = "png"

\* C19: a chart resolved to vector markup is written to a file whose name
\* ends in .svg, and that file's path is returned.
C19_VectorMarkupInSvgFile ==
  cap.kind = "svg" => (cap.written.ext = "svg" /\ cap.ret = cap.written)

\* What holds of vector markup: it is written to the path the caller gave,
\* whatever its extension.
VectorMarkupAtGivenPath ==
  cap.kind = "svg" => (cap.written = cap.path /\ cap.ret = cap.path)

\* C12: a workflow that has called connect() on its scraper has called
\* scraper.close() by the time the process ends, on every path.
C12_AlwaysReleaseOnExit ==
  (wpc = "exited" /\ connectCalled) => closed

\* What holds of the release: the hitting, pitching and umpire reports have
\* closed the scraper as soon as the scraping block is left; the scouting
\* report closes it only when connect() and the scraping both succeeded.
ReleaseOutsideScouting ==
  /\ (wf # "scouting" /\ connectCalled /\ wpc \notin {"connecting", "scraping"}) => closed
  /\ (wf = "scouting" /\ closed) => "scrape" \notin faults
  /\ (wf = "scouting" /\ "scrape" \in faults) => (wpc = "exited" /\ ~closed)

\* main has run: the process did not end while the pitching report parsed
\* its arguments at module level.
MainRan == ~(wf = "pitching" /\ exitStatus = "2")

\* C13: every run of main that has ended has printed exactly one result
\* line.
C13_ExactlyOneResultLine ==
  (wpc = "exited" /\ MainRan) => Len(printed) = 1

\* What holds of the result line: at most one is printed, and a run ends
\* without one exactly when the arguments do not parse (status 2) or the
\* hitting report's name check ends the process (status 1).
ResultLineUnlessEarlyExit ==
  /\ Len(printed) <= 1
  /\ wpc = "exited" =>
       (printed = << >> <=>
          (exitStatus = "2" \/ (wf = "hitting" /\ exitStatus = "1" /\ faults = {})))
  /\ printed # << >> => wpc = "exited"

\* C14: the process ends with status 0 exactly when the printed result is
\* the success result and with status 1 exactly when it is the failure
\* result; the success result is printed only after the PDF was generated.
C14_ExitStatusAgreesWithResult ==
  /\ wpc = "exited" =>
       /\ exitStatus = "0" <=> printed = << "success" >>
       /\ exitStatus = "1" <=> printed = << "failure" >>
  /\ printed = << "success" >> => pdf

\* What holds of the exit status: the same statement for the pitching,
\* umpire and scouting reports.
ExitStatusOutsideHitting ==
  /\ (wf # "hitting" /\ wpc = "exited") =>
       /\ exitStatus = "0" <=> printed = << "success" >>
       /\ exitStatus = "1" <=> printed = << "failure" >>
  /\ printed = << "success" >> => pdf

\* C20: in the hitting, pitching and umpire reports an exception of
\* connect() or of the scraping is caught around the scraping block, the
\* scraper is closed and the workflow goes on; a run whose only fault is the
\* scraping ends with the PDF generated and the success result, and a
\* failure result after a scraping fault has another fault behind it.
C20_ContinueWithoutCharts ==
  wf \in {"hitting", "pitching", "umpire"} =>
    /\ "scrape" \in faults => (closed /\ wpc \notin {"connecting", "scraping"})
    /\ ("scrape" \in faults /\ printed = << "failure" >>) => faults # {"scrape"}
    /\ (faults = {"scrape"} /\ wpc = "exited") =>
         (pdf /\ printed = << "success" >> /\ exitStatus = "0")

\* The umpire report has ended with the success result after connect()
\* raised on its fourth SessionNotCreatedException.
C20_Witness ==
  /\ wf = "umpire"
  /\ cpc = "raised"
  /\ error = "session_not_created"
  /\ closed
  /\ pdf
  /\ printed = << "success" >>

\* C24: a downloaded image gets the extension of the leading byte signature its
\* payload matches (PNG, JPEG, GIF87a or GIF89a, RIFF as webp) whatever the
\* URL ends with; with no matching signature the extension the URL ends with
\* (jpeg as jpg); otherwise png; the file is written under the requested name
\* with exactly that suffix and that path is returned.
C24_DetectionPriority ==
  (cap.kind = "href" /\ ~cap.raised /\ cap.content.resource # "none") =>
    LET b == cap.content.resource
        u == cap.content.urlext
        bySignature == [x \in {"png", "jpg", "gif87a", "gif89a", "riff"} |->
                          CASE x = "png" -> "png" [] x = "jpg" -> "jpg"
                            [] x = "riff" -> "webp" [] OTHER -> "gif"]
        byUrl == [x \in {"png", "jpg", "jpeg", "gif", "webp"} |->
                    IF x = "jpeg" THEN "jpg" ELSE x]
        ext == IF b \in DOMAIN bySignature THEN bySignature[b]
               ELSE IF u \in DOMAIN byUrl THEN byUrl[u]
               ELSE "png"
    IN /\ cap.written = [stem |-> cap.path.stem, ext |-> ext]
       /\ cap.ret = cap.written

\* A download whose payload carries the RIFF signature while the URL ends with
\* .gif: the file is written as webp.
C24_Witness ==
  /\ cap.kind = "href"
  /\ ~cap.raised
  /\ cap.content.resource = "riff"
  /\ cap.content.urlext = "gif"
  /\ cap.ret.ext = "webp"

\* C27: between a failed attach attempt and the next one both the
\* debugger-ready and the tab-available check are run again, and the next
\* attach is attempted only when both held at that re-check.
C27_AttachOnlyWhenRecheckHolds ==
  (cpc = "attach" /\ attempts > 0) =>
    recheck = [debugger |-> "ready", tab |-> "tab"]

\* C27 (as the code has it): between a failed attach attempt and the next one
\* both checks are run again, and their results are not acted on: after the
\* first attach attempt connect never raises the debugger-not-ready or the
\* no-tab error.
C27_RecheckRunsAndIsIgnored ==
  /\ (cpc = "attach" /\ attempts > 0) =>
       /\ recheck.debugger \in {"ready", "not_ready"}
       /\ recheck.tab \in {"tab", "no_tab"}
  /\ attempts > 0 => error \notin {"debugger_not_ready", "no_tab"}

\* The next attach is about to be attempted although the re-check found the
\* debugger not ready and no tab.
C27_Witness ==
  /\ cpc = "attach"
  /\ attempts > 0
  /\ recheck = [debugger |-> "not_ready", tab |-> "no_tab"]

\* The host whose encapsulated subtree holds element e directly (0: the
\* application root).
RECURSIVE RootHost(_, _)
RootHost(pg, e) ==
  IF pg.nodes[e].link # "light" THEN pg.nodes[e].parent
  ELSE RootHost(pg, pg.nodes[e].parent)

\* Element e is reachable from the application root through accessible
\* encapsulated subtrees only.
RECURSIVE Reachable(_, _)
Reachable(pg, e) ==
  IF e = 0 THEN pg.app = "open"
  ELSE pg.nodes[e].link # "closed" /\ Reachable(pg, pg.nodes[e].parent)

\* Element e lies in the encapsulated subtree of host h, at any depth.
RECURSIVE InSubtreeOf(_, _, _)
InSubtreeOf(pg, e, h) ==
  LET r == RootHost(pg, e)
  IN r = h \/ (r # 0 /\ InSubtreeOf(pg, r, h))

ReachableCharts(pg) ==
  { e \in 1..Len(pg.nodes) :
      pg.nodes[e].tag \in Range(CHART_TYPES) /\ Reachable(pg, e) }

\* C29: on every static tree the locator returns one descriptor for each
\* recognized chart element reachable through accessible encapsulated
\* subtrees, each exactly once; an element with an inaccessible subtree is a
\* leaf; the descriptors of a host's encapsulated subtree form one block that
\* comes directly after the host and before the elements that follow the host
\* in document order.
C29_LocatorCompleteAndOrdered ==
  findLog # << >> =>
    LET found == LocatedCharts(page)
        at(e) == CHOOSE i \in 1..Len(found) : found[i].element = e
        charts == ReachableCharts(page)
    IN /\ { found[i].element : i \in 1..Len(found) } = charts
       /\ Len(found) = Cardinality(charts)
       /\ findLog[Len(findLog)] = [i \in 1..Len(found) |-> [tag |-> page.nodes[found[i].element].tag]]
       /\ \A h \in 1..Len(page.nodes) :
            LET inside == { e \in charts : InSubtreeOf(page, e, h) }
                block == { at(e) : e \in inside }
                level == QuerySelectorAll(page, RootHost(page, h))
                k == CHOOSE i \in 1..Len(level) : level[i] = h
            IN (Reachable(page, h) /\ inside # {}) =>
                 /\ \E a \in 1..Len(found) : block = a..(a + Cardinality(inside) - 1)
                 /\ h \in charts => at(h) + 1 \in block /\ at(h) \notin block
                 /\ \A j \in 1..Len(level) :
                      level[j] \in charts =>
                        /\ j > k => \A b \in block : b < at(level[j])
                        /\ j < k => \A b \in block : at(level[j]) < b

\* The locator has run on a page where a chart hosts a chart in its open
\* shadow root, is followed by another chart, and the nested chart is
\* reported between the two.
C29_Witness ==
  /\ findLog # << >>
  /\ Len(page.nodes) = 3
  /\ \E h, e, f \in 1..3 :
       /\ page.nodes[e].parent = h /\ page.nodes[e].link = "open"
       /\ page.nodes[f].parent = 0
       /\ h < f
       /\ page.nodes[h].tag = HEAT_MAP
       /\ page.nodes[e].tag = PITCH_BREAK
       /\ page.nodes[f].tag = HEAT_MAP
       /\ findLog[1] = << [tag |-> HEAT_MAP], [tag |-> PITCH_BREAK], [tag |-> HEAT_MAP] >>

\* The locator has run on a page with a chart inside a closed shadow root:
\* the chart is not reported and the run returns normally.
C29_ClosedSubtreeWitness ==
  /\ findLog # << >>
  /\ \E e \in 1..Len(page.nodes) :
       /\ page.nodes[e].link = "closed"
       /\ page.nodes[e].tag \in Range(CHART_TYPES)
       /\ ~ \E i \in 1..Len(LocatedCharts(page)) : LocatedCharts(page)[i].element = e

\* C25: within one scrape_current_page run the file of a capture is named by
\* the chart type, with the ordinal as suffix exactly when more than one chart
\* of that type was found; captures of distinct (tag, index) are written to
\* pairwise distinct paths, also after the extension has been replaced for
\* raster output, and the returned paths are the written ones.
C25_DistinctFilePerCapture ==
  LET calls == scrape.calls
      found(t) == Cardinality({ k \in 1..Len(scrape.charts) : scrape.charts[k].tag = t })
  IN /\ \A i \in 1..Len(calls) :
          /\ calls[i].path.stem.name = chart_name(calls[i].tag)
          /\ calls[i].path.ext = "svg"
          /\ calls[i].path.stem.suffix =
               (IF found(calls[i].tag) > 1 THEN << calls[i].index >> ELSE << >>)
          /\ calls[i].written # NoFile => calls[i].written.stem = calls[i].path.stem
     /\ \A i, j \in 1..Len(calls) :
          (i # j /\ calls[i].written # NoFile /\ calls[j].written # NoFile) =>
            /\ << calls[i].tag, calls[i].index >> # << calls[j].tag, calls[j].index >>
            /\ calls[i].written # calls[j].written
            /\ calls[i].written.stem # calls[j].written.stem
     /\ \A i, j \in 1..Len(scrape.captured) :
          i # j => scrape.captured[i] # scrape.captured[j]
     /\ { scrape.captured[i] : i \in 1..Len(scrape.captured) }
          \subseteq { calls[i].written : i \in 1..Len(calls) }

\* A finished run that captured two heat maps, one as vector markup and one
\* as PNG, and a single pitch-break chart: heat-map_0, heat-map_1 with the
\* ordinal, pitch-break-chart without.
C25_Witness ==
  /\ scrape.pc = "done"
  /\ Len(scrape.captured) = 3
  /\ \E i, j, k \in 1..3 :
       /\ scrape.captured[i] = [stem |-> Stem("heat-map", << 0 >>), ext |-> "svg"]
       /\ scrape.captured[j] = [stem |-> Stem("heat-map", << 1 >>), ext |-> "png"]
       /\ scrape.captured[k] = [stem |-> Stem("pitch-break-chart", << >>), ext |-> "svg"]

\* C26: over every sequence of downloads and page loads on one scraper,
\* Page.getFrameTree is issued only while no frame id is cached; once a
\* download has resolved a frame id, self._frame_id never changes again and
\* every later download uses the cached value without resolving; a failed
\* resolution leaves the cache unset.
C26_FrameIdResolvedOnce ==
  /\ \A i \in 1..Len(frameLog) :
       LET e == frameLog[i]
       IN /\ e.issued <=> e.before = "none"
          /\ e.before # "none" => (e.used = e.before /\ e.after = e.before)
          /\ (e.issued /\ e.answer = "none") => (e.raised /\ e.after = "none")
          /\ (e.issued /\ e.answer # "none") => (e.used = e.answer /\ e.after = e.answer)
  /\ \A i, j \in 1..Len(frameLog) :
       (i < j /\ frameLog[i].after # "none") =>
         (frameLog[j].before = frameLog[i].after /\ frameLog[j].after = frameLog[i].after)
  /\ frameLog # << >> => frame_id = frameLog[Len(frameLog)].after

\* Three downloads: the first finds no frame id and raises, the second
\* resolves one, the third runs on another page whose frame tree names
\* another frame and uses the cached one.
C26_Witness ==
  /\ Len(frameLog) = 3
  /\ frameLog[1].issued /\ frameLog[1].raised /\ frameLog[1].after = "none"
  /\ frameLog[2].issued /\ frameLog[2].after = "id"
  /\ frameLog[3].page # frameLog[2].page
  /\ frameLog[3].answer = "id2"
  /\ ~frameLog[3].issued
  /\ frameLog[3].used = "id"
  /\ frame_id = "id"

\* C23: on every formatting path (format_percentage, safe_mean, the metric
\* circle) a ratio-scaled value v with 0 <= v <= 1 and the percentage-scaled
\* value 100*v give the same formatted percentage, the boundary v = 1
\* included.
C23_PercentageNormalization ==
  (pct.path \in FormatPaths /\ pct.ratio # NotFormatted) => pct.ratio = pct.percent

\* The part of C23 the code has: the two scales agree on format_percentage
\* and safe_mean for 0.01 < v <= 1, on the metric circle for 0.01 <= v < 1,
\* and on every path for v = 0.
PercentageAgreesAwayFromTheThreshold ==
  (pct.path \in FormatPaths /\ pct.ratio # NotFormatted) =>
    /\ (pct.path # "metric_circle" /\ (pct.value = 0 \/ 100 * pct.value > Unit))
         => pct.ratio = pct.percent
    /\ (pct.path = "metric_circle"
          /\ (pct.value = 0 \/ (100 * pct.value >= Unit /\ pct.value < Unit)))
         => pct.ratio = pct.percent

\* The metric circle shows the ratio 1 as "1%" and the percentage 100 as
\* "100%".
C23_BoundaryWitness ==
  /\ pct.path = "metric_circle"
  /\ pct.value = Unit
  /\ pct.ratio = [whole |-> 1, decimals |-> << >>]
  /\ pct.percent = [whole |-> 100, decimals |-> << >>]

\* 0.47 and 47.0 both give "47.0%" in format_percentage.
C23_ExampleWitness ==
  /\ pct.path = "format_percentage"
  /\ pct.value = 470
  /\ pct.ratio = [whole |-> 47, decimals |-> << 0 >>]
  /\ pct.percent = pct.ratio

\* C21: when the roster extraction returns nothing or raises, the scouting
\* workflow generates no PDF and puts no placeholder pitcher in: it ends with
\* the failure result and exit status 1; a chart missing for one pitcher is
\* soft: a run whose only faults are chart faults ends with the PDF and the
\* success result.
C21_RosterFailFast ==
  /\ ~sc.placeholder
  /\ sc.roster \in {"raised", "none", "empty"} =>
       /\ sc.log = << >>
       /\ pdf = FALSE
       /\ wpc = "exited"
       /\ printed = << "failure" >>
       /\ exitStatus = "1"
  /\ (wpc = "exited" /\ faults = {}) =>
       /\ sc.roster = "list"
       /\ Len(sc.log) = sc.pitchers
       /\ pdf = TRUE
       /\ printed = << "success" >>
       /\ exitStatus = "0"

\* The roster script returned an empty list and the run has ended with the
\* failure result.
C21_Witness ==
  /\ sc.roster = "empty"
  /\ pdf = FALSE
  /\ printed = << "failure" >>
  /\ exitStatus = "1"

\* A capture raised for the first pitcher and one returned None for the
\* second, and the report was generated.
C21_SoftChartWitness ==
  /\ Len(sc.log) = 2
  /\ sc.log[1].fault = "raised"
  /\ sc.log[2].fault = "missing"
  /\ pdf = TRUE
  /\ printed = << "success" >>

\* C28: every wait is a fixed sleep or a bounded polling loop, so the scouting
\* workflow ends whatever the browser answers, a page height that grows on
\* every scroll step included.
C28_EveryWorkflowTerminates == <>(wpc = "exited")

\* The part of C28 the code has: the roster wait takes at most 10 polls, the
\* port and debugger polls of connect() end at their deadlines, ...
BoundedPolls ==
  /\ sc.waited <= RosterMaxWait
  /\ tabTry < TabRetries
  /\ cpc = "wait_port" => waited < PortTimeout * TicksPerSecond + (1 + TicksPerSecond)
  /\ cpc = "wait_debugger" => waited < DebuggerDeadline + (1 + TicksPerSecond)

\* ... and once the progressive scroll is over the workflow ends.
TerminatesAfterScroll == (sc.pc = "roster_wait") ~> (wpc = "exited")

\* The heat-map ordinals of 18p .. min(18p+17, n-1), in increasing order.
OrdinalRange(p, n) ==
  LET last == Min(ChartsPerPitcher * p + 17, n - 1)
      count == IF n <= ChartsPerPitcher * p THEN 0 ELSE last - ChartsPerPitcher * p + 1
  IN [i \in 1..count |-> ChartsPerPitcher * p + i - 1]

\* C30: for pitcher index p and n heat maps discovered the heat-map ordinals
\* requested from capture are exactly 18p .. min(18p+17, n-1) in increasing
\* order (none when n <= 18p): each is smaller than n, at most 18 per pitcher,
\* the ranges of different pitchers are disjoint; the movement chart of
\* ordinal p is requested only when more than p pitch-break charts exist.
C30_ExactOrdinalRange ==
  \A i \in 1..Len(sc.log) :
    LET e == sc.log[i]
    IN /\ e.heat = OrdinalRange(e.pitcher, sc.n)
       /\ e.movement => sc.m > e.pitcher

\* The part of C30 the code has: the requested ordinals are a prefix of the
\* range, the whole range when nothing raised; each is smaller than n; at
\* most 18 per pitcher; different pitchers get disjoint ordinals; the movement
\* chart is requested only when more than p pitch-break charts exist.
OrdinalsArePrefixOfRange ==
  /\ \A i \in 1..Len(sc.log) :
       LET e == sc.log[i]
       IN /\ e.pitcher = i - 1
          /\ IsPrefix(e.heat, OrdinalRange(e.pitcher, sc.n))
          /\ e.fault # "raised" =>
               /\ e.heat = OrdinalRange(e.pitcher, sc.n)
               /\ e.movement <=> sc.m > e.pitcher
          /\ \A k \in 1..Len(e.heat) : e.heat[k] < sc.n
          /\ Len(e.heat) <= 18
          /\ e.movement => sc.m > e.pitcher
  /\ \A i, j \in 1..Len(sc.log) :
       i # j => Range(sc.log[i].heat) \cap Range(sc.log[j].heat) = {}

\* Twenty heat maps and two pitchers, nothing raised: ordinals 0..17 for the
\* first and 18, 19 for the second.
C30_Witness ==
  /\ sc.n = 20
  /\ Len(sc.log) = 2
  /\ sc.log[1].heat = [i \in 1..18 |-> i - 1]
  /\ sc.log[2].heat = << 18, 19 >>
  /\ sc.log[2].movement

\* C22: in the hitting and pitching workflows a statistic fetch other than
\* the full-season and date-range ones that fails (a vs-left or vs-right
\* split returning nothing or no rows) does not abort the report: the
\* statistics step raises only when the full-season or date-range rows are
\* missing, and a run whose only faults are split fetches, with or without a
\* scraping fault, ends with the PDF generated and the success result.
C22_SoftStatisticFetch ==
  wf \in {"hitting", "pitching"} =>
    /\ "stats" \in faults => "base" \in faults
    /\ ( /\ wpc = "exited"
         /\ faults \cap {"split_none", "split_empty"} # {}
         /\ faults \cap {"base", "token", "pdf"} = {} ) =>
         (pdf /\ printed = << "success" >> /\ exitStatus = "0")

\* What holds of the statistic fetches: the pitching report never raises in
\* the statistics step, whatever its fetches return, and the hitting report
\* raises there only without base rows or on a split that returned None; a
\* split that returned an empty frame leaves the run to end with the PDF and
\* the success result.
StatisticFetchSoftExceptNoneSplit ==
  /\ wf = "pitching" => "stats" \notin faults
  /\ (wf = "hitting" /\ "stats" \in faults) =>
       ("base" \in faults \/ "split_none" \in faults)
  /\ ( /\ wf \in {"hitting", "pitching"}
       /\ wpc = "exited"
       /\ "split_empty" \in faults
       /\ faults \cap {"base", "token", "pdf", "stats"} = {} ) =>
       (pdf /\ printed = << "success" >> /\ exitStatus = "0")

\* The pitching report has ended with the success result after a split fetch
\* returned None.
PitchingSplitWitness ==
  /\ wf = "pitching"
  /\ wpc = "exited"
  /\ "split_none" \in faults
  /\ printed = << "success" >>

====
